---- MODULE Spec2Model ----
(***************************************************************************)
(* A model of scripts/build_tables.py: the workbook ingestion and          *)
(* aggregation pipeline (parse_sheet, rows_to_dicts, to_float, parse_date, *)
(* classify_customer and main).                                            *)
(*                                                                         *)
(* Text is a sequence of one-character strings.  A Python float is an IEEE *)
(* binary64 value, modelled exactly: a record [neg, m, e] standing for     *)
(* (-1)^neg * m * 2^e with m an odd natural number of at most 53 bits      *)
(* (m = 0 for zero).  Because a 53-bit number does not fit a machine       *)
(* integer of the model checker, m is kept as a little-endian sequence of  *)
(* base-2^15 limbs.  Infinities, NaN, the sign of zero, subnormals and     *)
(* exponent overflow are outside the model: no input text of the model     *)
(* produces them.                                                          *)
(***************************************************************************)
EXTENDS Integers, Sequences, FiniteSets, TLC

(***************************************************************************)
(* Natural numbers of arbitrary size (limbs, least significant first, no   *)
(* leading zero limb; zero is the empty sequence).                         *)
(***************************************************************************)
LimbBits == 15

Limb == 2 ^ LimbBits

BLimb(a, i) == IF i <= Len(a) THEN a[i] ELSE 0

RECURSIVE BNorm(_)
BNorm(a) ==
  IF a = <<>> THEN <<>>
  ELSE IF a[Len(a)] = 0 THEN BNorm(SubSeq(a, 1, Len(a) - 1)) ELSE a

BOfInt(n) ==
  IF n = 0 THEN <<>>
  ELSE IF n < Limb THEN <<n>>
  ELSE IF n \div Limb < Limb THEN <<n % Limb, n \div Limb>>
  ELSE <<n % Limb, (n \div Limb) % Limb, n \div (Limb * Limb)>>

RECURSIVE BAddR(_, _, _, _)
BAddR(a, b, i, c) ==
  IF i > Len(a) /\ i > Len(b) THEN (IF c = 0 THEN <<>> ELSE <<c>>)
  ELSE LET s == BLimb(a, i) + BLimb(b, i) + c
       IN  <<s % Limb>> \o BAddR(a, b, i + 1, s \div Limb)

BAdd(a, b) == BAddR(a, b, 1, 0)

RECURSIVE BSubR(_, _, _, _)
BSubR(a, b, i, br) ==
  IF i > Len(a) THEN <<>>
  ELSE LET d == a[i] - BLimb(b, i) - br
       IN  <<d % Limb>> \o BSubR(a, b, i + 1, IF d < 0 THEN 1 ELSE 0)

\* a - b for a >= b
BSub(a, b) == BNorm(BSubR(a, b, 1, 0))

RECURSIVE BCmpR(_, _, _)
BCmpR(a, b, i) ==
  IF i = 0 THEN 0
  ELSE IF a[i] < b[i] THEN -1
  ELSE IF a[i] > b[i] THEN 1
  ELSE BCmpR(a, b, i - 1)

\* -1, 0, 1 as a < b, a = b, a > b
BCmp(a, b) ==
  IF Len(a) < Len(b) THEN -1
  ELSE IF Len(a) > Len(b) THEN 1
  ELSE BCmpR(a, b, Len(a))

RECURSIVE BMulSmallR(_, _, _, _)
BMulSmallR(a, k, i, c) ==
  IF i > Len(a) THEN (IF c = 0 THEN <<>> ELSE <<c>>)
  ELSE LET s == a[i] * k + c
       IN  <<s % Limb>> \o BMulSmallR(a, k, i + 1, s \div Limb)

\* a * k for 0 <= k < Limb
BMulSmall(a, k) == IF k = 0 THEN <<>> ELSE BMulSmallR(a, k, 1, 0)

BShlLimbs(a, n) == IF a = <<>> THEN <<>> ELSE [i \in 1..n |-> 0] \o a

\* a * 2^k
BShl(a, k) == BShlLimbs(BMulSmall(a, 2 ^ (k % LimbBits)), k \div LimbBits)

RECURSIVE BMulR(_, _, _)
BMulR(a, b, i) ==
  IF i > Len(b) THEN <<>>
  ELSE BAdd(BShlLimbs(BMulSmall(a, b[i]), i - 1), BMulR(a, b, i + 1))

BMul(a, b) == BMulR(a, b, 1)

RECURSIVE BitLenSmall(_)
BitLenSmall(n) == IF n = 0 THEN 0 ELSE 1 + BitLenSmall(n \div 2)

BBitLen(a) ==
  IF a = <<>> THEN 0 ELSE LimbBits * (Len(a) - 1) + BitLenSmall(a[Len(a)])

\* <<quotient, remainder>> of a by k, 0 < k < Limb; i runs from the top limb
RECURSIVE BDivSmallR(_, _, _, _, _)
BDivSmallR(a, k, i, rem, q) ==
  IF i = 0 THEN <<BNorm(q), rem>>
  ELSE LET cur == rem * Limb + a[i]
       IN  BDivSmallR(a, k, i - 1, cur % k, <<cur \div k>> \o q)

BDivSmall(a, k) == BDivSmallR(a, k, Len(a), 0, <<>>)

\* The quotient limb q and the remainder of rem by d, given a limb q that
\* is not too small and p = d * q.
RECURSIVE BQuotFix(_, _, _, _)
BQuotFix(rem, d, q, p) ==
  IF BCmp(p, rem) <= 0 THEN <<q, BSub(rem, p)>>
  ELSE BQuotFix(rem, d, q - 1, BSub(p, d))

BQuotTry(rem, d, q) == BQuotFix(rem, d, q, BMulSmall(d, q))

BQuotEst(top, dtop) == IF top \div dtop > Limb - 1 THEN Limb - 1 ELSE top \div dtop

\* One quotient limb of rem by d (rem < d * Limb, top limb of d >= Limb/2):
\* the estimate from the leading limbs is at most 2 too large.
BQuotLimb(rem, d) ==
  BQuotTry(rem, d,
           BQuotEst(BLimb(rem, Len(d) + 1) * Limb + BLimb(rem, Len(d)), d[Len(d)]))

RECURSIVE BDivModR(_, _, _, _, _)
RECURSIVE BDivModStep(_, _, _, _, _)
BDivModStep(a, d, i, q, ql) == BDivModR(a, d, i - 1, ql[2], <<ql[1]>> \o q)

\* rem is the remainder so far; a remainder still below d gives the limb 0
BDivModR(a, d, i, rem, q) ==
  IF i = 0 THEN <<BNorm(q), rem>>
  ELSE LET cur == BNorm(<<a[i]>> \o rem)
       IN  IF BCmp(cur, d) < 0 THEN BDivModR(a, d, i - 1, cur, <<0>> \o q)
           ELSE BDivModStep(a, d, i, q, BQuotLimb(cur, d))

BDivSmallPair(qr) == <<qr[1], BOfInt(qr[2])>>

\* <<quotient, remainder>> of a by d, d > 0 with its top limb >= Limb/2
BDivMod(a, d) ==
  IF Len(d) = 1 THEN BDivSmallPair(BDivSmall(a, d[1]))
  ELSE BDivModR(a, d, Len(a), <<>>, <<>>)

BIsOdd(a) == a # <<>> /\ a[1] % 2 = 1

RECURSIVE TrailingZeros(_)
TrailingZeros(n) == IF n % 2 = 1 THEN 0 ELSE 1 + TrailingZeros(n \div 2)

\* the number of trailing zero bits of a > 0
RECURSIVE BTrailingZeros(_)
BTrailingZeros(a) ==
  IF a[1] = 0 THEN LimbBits + BTrailingZeros(Tail(a)) ELSE TrailingZeros(a[1])

\* a \div 2^k
BShr(a, k) ==
  IF k \div LimbBits >= Len(a) THEN <<>>
  ELSE BDivSmall(SubSeq(a, k \div LimbBits + 1, Len(a)), 2 ^ (k % LimbBits))[1]

\* a % 2^k
BLowBits(a, k) == BSub(a, BShl(BShr(a, k), k))

(***************************************************************************)
(* IEEE binary64 arithmetic, round to nearest, ties to even.               *)
(***************************************************************************)
Precision == 52 + 1

FZero == [neg |-> FALSE, m |-> <<>>, e |-> 0]

FShift(neg, m, e, z) == [neg |-> neg, m |-> BShr(m, z), e |-> e + z]

\* the canonical value of (-1)^neg * m * 2^e, m of at most Precision bits
FCanon(neg, m, e) ==
  IF m = <<>> THEN FZero ELSE FShift(neg, m, e, BTrailingZeros(m))

\* hi, or hi + 1 when the bits dropped below hi (c compares them with one
\* half, rest is what lies below them) round up, ties going to even
FRoundPick(neg, e, hi, c, rest) ==
  FCanon(neg,
         IF c > 0 \/ (c = 0 /\ (rest # <<>> \/ BIsOdd(hi))) THEN BAdd(hi, <<1>>)
         ELSE hi,
         e)

\* the quotient q to Precision bits, k being the number of bits to drop
FRoundBits(neg, e, q, rest, k) ==
  FRoundPick(neg, e + k, BShr(q, k), BCmp(BLowBits(q, k), BShl(<<1>>, k - 1)), rest)

FRoundQuot(neg, e, qr) == FRoundBits(neg, e, qr[1], qr[2], BBitLen(qr[1]) - Precision)

\* n / d with d shifted to fill its top limb
FRoundNorm(neg, e, n, d, s) == FRoundQuot(neg, e, BDivMod(BShl(n, s), BShl(d, s)))

\* n / d scaled by 2^t so that the quotient has Precision + 1 or + 2 bits
FRoundScaled(neg, e, n, d, t) ==
  IF t >= 0
  THEN FRoundNorm(neg, e - t, BShl(n, t), d,
                  (LimbBits - (BBitLen(d) % LimbBits)) % LimbBits)
  ELSE FRoundNorm(neg, e - t, n, BShl(d, 0 - t),
                  (LimbBits - ((BBitLen(d) - t) % LimbBits)) % LimbBits)

\* the binary64 value nearest to (-1)^neg * (n / d) * 2^e, for d > 0
FRound(neg, n, d, e) ==
  IF n = <<>> THEN FZero
  ELSE FRoundScaled(neg, e, n, d, BBitLen(d) - BBitLen(n) + Precision + 1)

FNeg(x) == IF x.m = <<>> THEN x ELSE [x EXCEPT !.neg = ~x.neg]

\* a * 2^e + b * 2^e with the signs xneg, yneg; c compares a with b
FAddAligned(xneg, yneg, a, b, e, c) ==
  FRound(IF xneg = yneg \/ c > 0 THEN xneg ELSE yneg,
         IF xneg = yneg THEN BAdd(a, b)
         ELSE IF c > 0 THEN BSub(a, b)
         ELSE IF c < 0 THEN BSub(b, a)
         ELSE <<>>,
         <<1>>, e)

FAddAt(x, y, e) ==
  FAddAligned(x.neg, y.neg, BShl(x.m, x.e - e), BShl(y.m, y.e - e), e,
              BCmp(BShl(x.m, x.e - e), BShl(y.m, y.e - e)))

FAdd(x, y) ==
  IF x.m = <<>> THEN y
  ELSE IF y.m = <<>> THEN x
  ELSE FAddAt(x, y, IF x.e < y.e THEN x.e ELSE y.e)

FMul(x, y) == FRound(x.neg # y.neg, BMul(x.m, y.m), <<1>>, x.e + y.e)

\* x / y for y # 0
FDiv(x, y) == FRound(x.neg # y.neg, x.m, y.m, x.e - y.e)

FIsZero(x) == x.m = <<>>

FPositive(x) == x.m # <<>> /\ ~x.neg

\* the float of a small integer
FOfInt(n) == FRound(n < 0, BOfInt(IF n < 0 THEN 0 - n ELSE n), <<1>>, 0)

\* round(x, 2): the decimal with two places nearest to the exact value of x
\* (ties to even), converted back to binary64
round2_up(neg, q, c) ==
  FRound(neg, IF c > 0 \/ (c = 0 /\ BIsOdd(q)) THEN BAdd(q, <<1>>) ELSE q,
         <<100>>, 0)

round2_at(neg, n, k) ==
  round2_up(neg, BShr(n, k), BCmp(BLowBits(n, k), BShl(<<1>>, k - 1)))

round2(x) ==
  IF x.e >= 0 THEN x ELSE round2_at(x.neg, BMulSmall(x.m, 100), 0 - x.e)

(***************************************************************************)
(* Text: sequences of one-character strings.  None is Python's None (an    *)
(* absent cell or a missing key); it is no text.                           *)
(***************************************************************************)
None == <<"None">>

Digits == <<"0", "1", "2", "3", "4", "5", "6", "7", "8", "9">>

UpperCase == <<"A", "B", "C", "D", "E", "F", "G", "H", "I", "J", "K", "L", "M",
               "N", "O", "P", "Q", "R", "S", "T", "U", "V", "W", "X", "Y", "Z">>

LowerCase == <<"a", "b", "c", "d", "e", "f", "g", "h", "i", "j", "k", "l", "m",
               "n", "o", "p", "q", "r", "s", "t", "u", "v", "w", "x", "y", "z">>

IndexOf(seq, c) == CHOOSE i \in 1..Len(seq) : seq[i] = c

IsIn(seq, c) == \E i \in 1..Len(seq) : seq[i] = c

IsDigit(c) == IsIn(Digits, c)

DigitVal(c) == IndexOf(Digits, c) - 1

IsSpace(c) == c \in {" ", "\t", "\n", "\r"}

AllDigits(t) == t # <<>> /\ \A i \in 1..Len(t) : IsDigit(t[i])

RECURSIVE lstrip(_)
lstrip(t) == IF t # <<>> /\ IsSpace(t[1]) THEN lstrip(Tail(t)) ELSE t

RECURSIVE rstrip(_)
rstrip(t) ==
  IF t # <<>> /\ IsSpace(t[Len(t)]) THEN rstrip(SubSeq(t, 1, Len(t) - 1)) ELSE t

\* str.strip()
strip(t) == rstrip(lstrip(t))

\* value or ""
OrEmpty(value) == IF value = None THEN <<>> ELSE value

\* str.replace(",", "")
RemoveCommas(t) == LET NotComma(c) == c # "," IN SelectSeq(t, NotComma)

\* str.lower()
Lower(c) == IF IsIn(UpperCase, c) THEN LowerCase[IndexOf(UpperCase, c)] ELSE c

lower(t) == [i \in 1..Len(t) |-> Lower(t[i])]

\* needle in text
Contains(t, needle) ==
  \E i \in 0..(Len(t) - Len(needle)) : SubSeq(t, i + 1, i + Len(needle)) = needle

\* the pieces of t between occurrences of sep
RECURSIVE Split(_, _)
Split(t, sep) ==
  IF ~IsIn(t, sep) THEN <<t>>
  ELSE LET i == CHOOSE j \in 1..Len(t) :
                  t[j] = sep /\ \A k \in 1..(j - 1) : t[k] # sep
       IN  <<SubSeq(t, 1, i - 1)>> \o Split(SubSeq(t, i + 1, Len(t)), sep)

\* the natural number written by the digits t
RECURSIVE BOfDigits(_)
BOfDigits(t) ==
  IF t = <<>> THEN <<>>
  ELSE BAdd(BMulSmall(BOfDigits(SubSeq(t, 1, Len(t) - 1)), 10),
            BOfInt(DigitVal(t[Len(t)])))

RECURSIVE BPow10(_)
BPow10(k) == IF k = 0 THEN <<1>> ELSE BMulSmall(BPow10(k - 1), 10)

\* the small natural number written by at most 9 digits
RECURSIVE IntOfDigits(_)
IntOfDigits(t) ==
  IF t = <<>> THEN 0
  ELSE 10 * IntOfDigits(SubSeq(t, 1, Len(t) - 1)) + DigitVal(t[Len(t)])

(***************************************************************************)
(* float(text).  The decimal forms are modelled: an optional sign, digits  *)
(* with an optional fraction ("12", "1.5", ".5", "5.").  The exponent      *)
(* forms, digit-group underscores, "inf" and "nan" are not written by any  *)
(* input of the model; FloatOk is FALSE where Python raises ValueError.    *)
(***************************************************************************)
Unsigned(t) == IF t # <<>> /\ t[1] \in {"-", "+"} THEN Tail(t) ELSE t

IntPart(t) == Split(Unsigned(t), ".")[1]

FracPart(t) ==
  LET parts == Split(Unsigned(t), ".") IN IF Len(parts) = 2 THEN parts[2] ELSE <<>>

FloatOk(t) ==
  LET parts == Split(Unsigned(t), ".")
  IN  /\ Len(parts) \in {1, 2}
      /\ \A i \in 1..Len(parts) : \A j \in 1..Len(parts[i]) : IsDigit(parts[i][j])
      /\ IntPart(t) \o FracPart(t) # <<>>

\* float(t) for FloatOk(t)
FloatOf(t) ==
  FRound(t[1] = "-", BOfDigits(IntPart(t) \o FracPart(t)),
         BPow10(Len(FracPart(t))), 0)

\* to_float: None, "" and anything float() rejects give 0.0
to_float(value) ==
  IF value = None THEN FZero
  ELSE LET cleaned == strip(RemoveCommas(value))
       IN  IF cleaned = <<>> THEN FZero
           ELSE IF FloatOk(cleaned) THEN FloatOf(cleaned)
           ELSE FZero

\* classify_customer that looks for "Ethos" as it is written
classify_customer_exact(customer_name) ==
  IF customer_name # None /\ customer_name # <<>>
     /\ Contains(customer_name, <<"E", "t", "h", "o", "s">>)
  THEN "Internal" ELSE "External"

\* classify_customer that takes a missing or empty name for Internal
classify_customer_blank_internal(customer_name) ==
  IF customer_name = None \/ customer_name = <<>> THEN "Internal"
  ELSE IF Contains(lower(customer_name), <<"e", "t", "h", "o", "s">>) THEN "Internal"
  ELSE "External"

\* classify_customer
classify_customer(customer_name) ==
  IF customer_name # None /\ customer_name # <<>>
     /\ Contains(lower(customer_name), <<"e", "t", "h", "o", "s">>)
  THEN "Internal" ELSE "External"

(***************************************************************************)
(* Dates.  A parse yields [kind |-> "date", y, m, d], NoDate (Python's     *)
(* None) or Raised(exc) when the call raises an exception it does not      *)
(* catch.                                                                  *)
(***************************************************************************)
NoDate == [kind |-> "none"]

Date(y, m, d) == [kind |-> "date", y |-> y, m |-> m, d |-> d]

Raised(exc) == [kind |-> "raise", exc |-> exc]

IsLeap(y) == y % 4 = 0 /\ (y % 100 # 0 \/ y % 400 = 0)

DaysInMonth(y, m) ==
  IF m = 2 THEN (IF IsLeap(y) THEN 29 ELSE 28)
  ELSE IF m \in {4, 6, 9, 11} THEN 30 ELSE 31

\* datetime(y, m, d) accepts the date (MINYEAR = 1, MAXYEAR = 9999)
ValidDate(y, m, d) ==
  y \in 1..9999 /\ m \in 1..12 /\ d >= 1 /\ d <= DaysInMonth(y, m)

\* the month and day of the n-th day (0-based) of year y
RECURSIVE MonthDay(_, _, _)
MonthDay(y, m, n) ==
  IF n < DaysInMonth(y, m) THEN <<m, n + 1>>
  ELSE MonthDay(y, m + 1, n - DaysInMonth(y, m))

\* the date of a proleptic Gregorian ordinal (0001-01-01 is 1)
DateOfOrdinal(ordinal) ==
  LET n0   == ordinal - 1
      n400 == n0 \div 146097
      r400 == n0 % 146097
      n100 == r400 \div 36524
      r100 == r400 % 36524
      n4   == r100 \div 1461
      r4   == r100 % 1461
      n1   == r4 \div 365
      r1   == r4 % 365
      year == n400 * 400 + n100 * 100 + n4 * 4 + n1 + 1
  IN  IF n1 = 4 \/ n100 = 4 THEN Date(year - 1, 12, 31)
      ELSE LET md == MonthDay(year, 1, r1) IN Date(year, md[1], md[2])

\* dt.datetime(1899, 12, 30) as an ordinal
SerialBase == 693594

MaxOrdinal == 3652059

\* the integer part of |x| for |x| < 2^31
TruncOfFloat(x) ==
  LET q == IF x.e >= 0 THEN BShl(x.m, x.e) ELSE BShr(x.m, 0 - x.e)
  IN  BLimb(q, 1) + BLimb(q, 2) * Limb + BLimb(q, 3) * Limb * Limb

\* floor(x) for |x| < 2^31
FloorOfFloat(x) ==
  IF ~x.neg THEN TruncOfFloat(x)
  ELSE IF x.e >= 0 THEN 0 - TruncOfFloat(x)
  ELSE 0 - TruncOfFloat(x) - 1

\* (base + dt.timedelta(days=serial)).date(): OverflowError when the
\* timedelta or the sum is out of range.  The day is floor(serial): the
\* timedelta's rounding to microseconds is not modelled (it moves the day
\* only for a fraction within 6e-12 of a whole day).
DateOfSerial(serial) ==
  IF BBitLen(serial.m) + serial.e > 31 THEN Raised("OverflowError")
  ELSE LET ordinal == SerialBase + FloorOfFloat(serial)
       IN  IF ordinal < 1 \/ ordinal > MaxOrdinal THEN Raised("OverflowError")
           ELSE DateOfOrdinal(ordinal)

\* re.match(r"^-?\d+(\.\d+)?$", cleaned)
IsSerialText(t) ==
  LET u     == IF t # <<>> /\ t[1] = "-" THEN Tail(t) ELSE t
      parts == Split(u, ".")
  IN  Len(parts) \in {1, 2} /\ \A i \in 1..Len(parts) : AllDigits(parts[i])

\* strptime directives %Y, %m, %d
YearPiece(p) == Len(p) = 4 /\ AllDigits(p)

MonthPiece(p) == Len(p) \in {1, 2} /\ AllDigits(p) /\ IntOfDigits(p) \in 1..12

DayPiece(p) ==
  \/ Len(p) \in {1, 2} /\ AllDigits(p) /\ IntOfDigits(p) \in 1..31
  \/ Len(p) = 2 /\ p[1] = " " /\ IsDigit(p[2]) /\ p[2] # "0"

DayOfPiece(p) == IF p[1] = " " THEN DigitVal(p[2]) ELSE IntOfDigits(p)

\* dt.datetime.strptime(cleaned, fmt).date() for the four formats of
\* parse_date, named by their field order; NoDate stands for ValueError
strptime(t, fmt) ==
  LET sep == IF fmt \in {"%Y-%m-%d"} THEN "-" ELSE "/"
      ps  == Split(t, sep)
      yi  == IF fmt \in {"%Y-%m-%d", "%Y/%m/%d"} THEN 1 ELSE 3
      mi  == IF fmt = "%m/%d/%Y" THEN 1 ELSE 2
      di  == IF fmt \in {"%Y-%m-%d", "%Y/%m/%d"} THEN 3
             ELSE IF fmt = "%m/%d/%Y" THEN 2 ELSE 1
  IN  IF Len(ps) = 3 /\ YearPiece(ps[yi]) /\ MonthPiece(ps[mi]) /\ DayPiece(ps[di])
         /\ ValidDate(IntOfDigits(ps[yi]), IntOfDigits(ps[mi]), DayOfPiece(ps[di]))
      THEN Date(IntOfDigits(ps[yi]), IntOfDigits(ps[mi]), DayOfPiece(ps[di]))
      ELSE NoDate

\* the time part HH, HH:MM or HH:MM:SS of an ISO date-time
IsoTime(t) ==
  LET ps == Split(t, ":")
  IN  /\ Len(ps) \in 1..3
      /\ \A i \in 1..Len(ps) : Len(ps[i]) = 2 /\ AllDigits(ps[i])
      /\ IntOfDigits(ps[1]) < 24
      /\ \A i \in 2..Len(ps) : IntOfDigits(ps[i]) < 60

\* dt.datetime.fromisoformat(cleaned).date(), NoDate standing for ValueError.
\* Modelled: YYYY-MM-DD or YYYYMMDD, alone or followed by one separator
\* character and a time HH[:MM[:SS]].  The week forms, times without
\* colons, fractional seconds and UTC offsets are not written by any input
\* of the model.
fromisoformat(t) ==
  LET n  == IF Len(t) >= 5 /\ t[5] = "-" THEN 10 ELSE 8
      ds == IF Len(t) < n THEN <<>>
            ELSE IF n = 8 THEN SubSeq(t, 1, 8)
            ELSE IF t[8] = "-" THEN SubSeq(t, 1, 4) \o SubSeq(t, 6, 7) \o SubSeq(t, 9, 10)
            ELSE <<>>
      y  == IntOfDigits(SubSeq(ds, 1, 4))
      m  == IntOfDigits(SubSeq(ds, 5, 6))
      d  == IntOfDigits(SubSeq(ds, 7, 8))
  IN  IF /\ Len(ds) = 8
         /\ AllDigits(ds)
         /\ ValidDate(y, m, d)
         /\ (Len(t) = n \/ (Len(t) > n + 1 /\ IsoTime(SubSeq(t, n + 2, Len(t)))))
      THEN Date(y, m, d)
      ELSE NoDate

DateFormats == <<"%Y-%m-%d", "%m/%d/%Y", "%d/%m/%Y", "%Y/%m/%d">>

\* the for loop of parse_date over the formats from the i-th on
RECURSIVE TryFormats(_, _)
TryFormats(t, i) ==
  IF i > Len(DateFormats) THEN fromisoformat(t)
  ELSE IF strptime(t, DateFormats[i]) # NoDate THEN strptime(t, DateFormats[i])
  ELSE TryFormats(t, i + 1)

\* parse_date that tries the textual formats before the serial reading
parse_date_text_first(value) ==
  IF value = None THEN NoDate
  ELSE LET cleaned == strip(value)
       IN  IF cleaned = <<>> THEN NoDate
           ELSE IF TryFormats(cleaned, 1) # NoDate THEN TryFormats(cleaned, 1)
           ELSE IF IsSerialText(cleaned) THEN DateOfSerial(FloatOf(cleaned))
           ELSE NoDate

\* parse_date of a cell (text or None).  A serial text never raises the
\* ValueError that parse_date catches (float() accepts it and the serial is
\* finite), so whatever DateOfSerial gives is the outcome.
parse_date(value) ==
  IF value = None THEN NoDate
  ELSE LET cleaned == strip(value)
       IN  IF cleaned = <<>> THEN NoDate
           ELSE IF IsSerialText(cleaned) THEN DateOfSerial(FloatOf(cleaned))
           ELSE TryFormats(cleaned, 1)

(***************************************************************************)
(* The workbook.  A worksheet part is [wellformed, rows]: rows is the      *)
(* sequence of <row> elements, each the sequence of its <c> elements, a    *)
(* cell being [r, t, v, is]: the r and t attributes, the text of its <v>   *)
(* child and the concatenated <t> text of its <is> child, each None when   *)
(* missing.  ET.fromstring raises ParseError on a part that is not well    *)
(* formed.                                                                 *)
(***************************************************************************)
Ok(value) == [ok |-> TRUE, value |-> value]

Raise(exc) == [ok |-> FALSE, exc |-> exc]

\* col_to_idx
RECURSIVE col_to_idx_loop(_, _)
col_to_idx_loop(col, idx) ==
  IF col = <<>> THEN idx
  ELSE col_to_idx_loop(Tail(col), idx * 26 + IndexOf(UpperCase, col[1]))

\* col_to_idx reading the letters as plain base-26 digits, A = 0
RECURSIVE col_to_idx_plain(_)
col_to_idx_plain(col) ==
  IF col = <<>> THEN 0
  ELSE 26 * col_to_idx_plain(SubSeq(col, 1, Len(col) - 1))
       + IndexOf(UpperCase, col[Len(col)]) - 1

col_to_idx(col) == col_to_idx_loop(col, 0) - 1

\* re.match(r"[A-Z]+", cell_ref): the longest prefix of capital letters
RECURSIVE col_letters(_)
col_letters(cell_ref) ==
  IF cell_ref # <<>> /\ IsIn(UpperCase, cell_ref[1])
  THEN <<cell_ref[1]>> \o col_letters(Tail(cell_ref))
  ELSE <<>>

\* int(text) accepts an optionally signed run of digits, blanks around it
IntOk(t) == AllDigits(Unsigned(strip(t)))

IntOf(t) ==
  IF strip(t)[1] = "-" THEN 0 - IntOfDigits(Unsigned(strip(t)))
  ELSE IntOfDigits(Unsigned(strip(t)))

\* shared_strings[int(v.text)]: a Python list index, which counts a
\* negative index from the end of the list
shared_string(shared_strings, text) ==
  IF ~IntOk(text) THEN Raise("ValueError")
  ELSE LET i == IntOf(text)
           n == Len(shared_strings)
       IN  IF i >= 0 /\ i < n THEN Ok(shared_strings[i + 1])
           ELSE IF i < 0 /\ i >= 0 - n THEN Ok(shared_strings[n + i + 1])
           ELSE Raise("IndexError")

\* the value of one cell (the body of the loop over row.findall("main:c"))
cell_value(shared_strings, cell) ==
  IF cell.t = <<"s">> THEN
    (IF cell.v # None THEN shared_string(shared_strings, cell.v) ELSE Ok(None))
  ELSE IF cell.t = <<"i", "n", "l", "i", "n", "e", "S", "t", "r">> THEN Ok(cell.is)
  ELSE Ok(cell.v)

\* the loop over the cells of one <row>: acc is [row_values, max_col]
RECURSIVE parse_cells(_, _, _)
parse_cells(shared_strings, cells, acc) ==
  IF cells = <<>> THEN Ok(acc)
  ELSE
    LET cell == cells[1]
    IN  IF cell.r = None \/ cell.r = <<>>
        THEN parse_cells(shared_strings, Tail(cells), acc)
        ELSE IF col_letters(cell.r) = <<>> THEN Raise("AttributeError")
        ELSE
          LET col_idx == col_to_idx(col_letters(cell.r))
              value   == cell_value(shared_strings, cell)
          IN  IF ~value.ok THEN value
              ELSE parse_cells(shared_strings, Tail(cells),
                     [row_values |->
                        [c \in DOMAIN acc.row_values \cup {col_idx} |->
                           IF c = col_idx THEN value.value ELSE acc.row_values[c]],
                      max_col |->
                        IF col_idx > acc.max_col THEN col_idx ELSE acc.max_col])

\* dense_row that leaves out the columns no cell names: the values in
\* column order
dense_row_packed(acc) ==
  LET cols == DOMAIN acc.row_values
      nth(i) == CHOOSE c \in cols : Cardinality({b \in cols : b < c}) = i - 1
  IN  [i \in 1..Cardinality(cols) |-> acc.row_values[nth(i)]]

\* [row_values.get(i) for i in range(max_col + 1)]
dense_row(acc) ==
  [i \in 1..(acc.max_col + 1) |->
     IF (i - 1) \in DOMAIN acc.row_values THEN acc.row_values[i - 1] ELSE None]

\* the loop over the <row> elements
RECURSIVE parse_rows(_, _, _)
parse_rows(shared_strings, xml_rows, rows) ==
  IF xml_rows = <<>> THEN Ok(rows)
  ELSE
    LET acc == parse_cells(shared_strings, xml_rows[1],
                           [row_values |-> <<>>, max_col |-> -1])
    IN  IF ~acc.ok THEN acc
        ELSE parse_rows(shared_strings, Tail(xml_rows),
               IF DOMAIN acc.value.row_values # {}
               THEN Append(rows, dense_row(acc.value)) ELSE rows)

\* parse_sheet: Ok(grid), or Raise(exc) when it raises
parse_sheet(shared_strings, sheet) ==
  IF ~sheet.wellformed THEN Raise("ParseError")
  ELSE parse_rows(shared_strings, sheet.rows, <<>>)

\* value.split(): the maximal runs of non-blank characters
RECURSIVE split(_)
split(t) ==
  LET u == lstrip(t)
  IN  IF u = <<>> THEN <<>>
      ELSE LET n == CHOOSE k \in 1..Len(u) :
                      /\ \A j \in 1..k : ~IsSpace(u[j])
                      /\ (k = Len(u) \/ IsSpace(u[k + 1]))
           IN  <<SubSeq(u, 1, n)>> \o split(SubSeq(u, n + 1, Len(u)))

\* " ".join(words)
RECURSIVE join(_)
join(words) ==
  IF words = <<>> THEN <<>>
  ELSE IF Len(words) = 1 THEN words[1]
  ELSE words[1] \o <<" ">> \o join(Tail(words))

\* normalize_header that only trims the ends
normalize_header_trim(value) ==
  IF value = None \/ value = <<>> THEN <<>> ELSE strip(value)

\* normalize_header
normalize_header(value) ==
  IF value = None \/ value = <<>> THEN <<>> ELSE join(split(value))

\* A record (a Python dict from header to cell) is a function on its keys.
\* dict.get(key)
Get(row, key) == IF key \in DOMAIN row THEN row[key] ELSE None

\* the dict built from one data row: a header that occurs twice keeps the
\* cell of its last position
row_dict(headers, row) ==
  [h \in {headers[i] : i \in {j \in 1..Len(headers) : headers[j] # <<>>}} |->
     LET idx == CHOOSE i \in 1..Len(headers) :
                  headers[i] = h /\ \A j \in (i + 1)..Len(headers) : headers[j] # h
     IN  IF idx <= Len(row) THEN row[idx] ELSE None]

\* rows_to_dicts: rows[0] raises IndexError on an empty grid
rows_to_dicts(rows) ==
  IF rows = <<>> THEN Raise("IndexError")
  ELSE LET headers == [i \in 1..Len(rows[1]) |-> normalize_header(rows[1][i])]
       IN  Ok([k \in 1..(Len(rows) - 1) |-> row_dict(headers, rows[k + 1])])

\* the character U+00A3 (pound sign)
Pound == "u00a3"

\* the column names main reads
H_OrderCreationDate == <<"O", "r", "d", "e", "r", " ", "C", "r", "e", "a", "t", "i", "o", "n", " ", "D", "a", "t", "e">>

H_Revenue == <<"R", "e", "v", "e", "n", "u", "e", " ", "(", Pound, Pound, Pound, ")">>

H_SalesOrderNumber == <<"S", "a", "l", "e", "s", " ", "O", "r", "d", "e", "r", " ", "N", "u", "m", "b", "e", "r">>

H_AsSoldCost == <<"(", "A", "s", " ", "S", "o", "l", "d", " ", "C", "o", "s", "t", ")", " ", "$">>

H_Site == <<"S", "i", "t", "e">>

H_PartNumber == <<"P", "a", "r", "t", " ", "N", "u", "m", "b", "e", "r">>

H_QtyShipped == <<"Q", "t", "y", " ", "S", "h", "i", "p", "p", "e", "d">>

H_CustomerName == <<"C", "u", "s", "t", "o", "m", "e", "r", " ", "N", "a", "m", "e">>

H_SaleforceOppurtunity == <<"S", "a", "l", "e", "f", "o", "r", "c", "e", " ", "O", "p", "p", "u", "r", "t", "u", "n", "i", "t", "y">>

H_PartNo == <<"P", "a", "r", "t", " ", "N", "o">>

H_OnhandQty == <<"O", "n", "h", "a", "n", "d", " ", "Q", "t", "y">>

(***************************************************************************)
(* Dictionaries and sorting.                                               *)
(***************************************************************************)
\* d[k] = v
Put(d, k, v) == [x \in DOMAIN d \cup {k} |-> IF x = k THEN v ELSE d[x]]

\* d.get(k, default)
GetOr(d, k, default) == IF k \in DOMAIN d THEN d[k] ELSE default

\* the characters of the model in code point order
CodePoints ==
  <<"\t", "\n", "\r", " ", "$", "(", ")", "+", ",", "-", ".", "/">>
  \o Digits \o <<":">> \o UpperCase \o <<"_">> \o LowerCase \o <<Pound>>

Ord(c) == IndexOf(CodePoints, c)

\* a < b for Python strings
RECURSIVE TextLess(_, _)
TextLess(a, b) ==
  IF b = <<>> THEN FALSE
  ELSE IF a = <<>> THEN TRUE
  ELSE IF a[1] # b[1] THEN Ord(a[1]) < Ord(b[1])
  ELSE TextLess(Tail(a), Tail(b))

\* a < b for the key tuples (site, part), (site, customer), (site, year, part)
KeyLess(a, b) ==
  IF a[1] # b[1] THEN TextLess(a[1], b[1])
  ELSE IF Len(a) = 2 THEN TextLess(a[2], b[2])
  ELSE IF a[2] # b[2] THEN a[2] < b[2]
  ELSE TextLess(a[3], b[3])

\* sorted with the greatest key first
RECURSIVE sorted_descending(_)
sorted_descending(keys) ==
  IF keys = {} THEN <<>>
  ELSE LET most == CHOOSE k \in keys : \A o \in keys \ {k} : KeyLess(o, k)
       IN  <<most>> \o sorted_descending(keys \ {most})

\* sorted(keys)
RECURSIVE sorted(_)
sorted(keys) ==
  IF keys = {} THEN <<>>
  ELSE LET least == CHOOSE k \in keys : \A o \in keys \ {k} : KeyLess(k, o)
       IN  <<least>> \o sorted(keys \ {least})

(***************************************************************************)
(* main: the loops and the report rows.                                    *)
(***************************************************************************)
\* Field without the strip()
Field_untrimmed(row, key) == OrEmpty(Get(row, key))

\* (row.get(key) or "").strip()
Field(row, key) == strip(OrEmpty(Get(row, key)))

\* the loop over inventory (lines 163-168) from the i-th row on
RECURSIVE inventory_loop(_, _, _)
inventory_loop(inventory, i, totals) ==
  IF i > Len(inventory) THEN totals
  ELSE
    LET row        == inventory[i]
        site       == Field(row, H_Site)
        part_no    == Field(row, H_PartNo)
        onhand_qty == to_float(Get(row, H_OnhandQty))
    IN  inventory_loop(inventory, i + 1,
          IF site # <<>> /\ part_no # <<>>
          THEN Put(totals, <<site, part_no>>,
                   FAdd(GetOr(totals, <<site, part_no>>, FZero), onhand_qty))
          ELSE totals)

\* the value written in the Onhand Qty column of Inventory_Normalized.csv
inventory_qty(qty) == qty

\* inventory_output_rows
inventory_output_rows(totals) ==
  LET keys == sorted(DOMAIN totals)
  IN  [i \in 1..Len(keys) |->
         [Site |-> keys[i][1], Part_No |-> keys[i][2],
          Onhand_Qty |-> inventory_qty(totals[keys[i]])]]

YearMin == 2019

YearMax == 2025

\* year_rejected with the two ends of the range left out
year_rejected_open(date_value) ==
  date_value.kind # "date" \/ date_value.y <= YearMin \/ date_value.y >= YearMax

\* year is None or year < 2019 or year > 2025
year_rejected(date_value) ==
  date_value.kind # "date" \/ date_value.y < YearMin \/ date_value.y > YearMax

\* remember_cost where the last nonzero cost of an order wins
remember_cost_last(order_cost, order_number, cost_value) ==
  IF ~FIsZero(cost_value) THEN Put(order_cost, order_number, cost_value)
  ELSE order_cost

\* order_cost after a row of cost cost_value
remember_cost(order_cost, order_number, cost_value) ==
  IF ~FIsZero(cost_value) /\ order_number \notin DOMAIN order_cost
  THEN Put(order_cost, order_number, cost_value)
  ELSE order_cost

\* filter_row that books a line without an order number under the empty
\* order number
filter_row_any_order(row, date_value, st) ==
  IF year_rejected(date_value) THEN st
  ELSE
    LET revenue_gbp  == to_float(Get(row, H_Revenue))
        order_number == Field(row, H_SalesOrderNumber)
        cost_value   == to_float(Get(row, H_AsSoldCost))
    IN  [sales_filtered |->
           Append(st.sales_filtered,
                  [row |-> row, _parsed_year |-> date_value.y,
                   _revenue_gbp |-> revenue_gbp, _cost_alloc_usd |-> FZero]),
         order_revenue |->
           Put(st.order_revenue, order_number,
               FAdd(GetOr(st.order_revenue, order_number, FZero), revenue_gbp)),
         order_cost |-> remember_cost(st.order_cost, order_number, cost_value)]

\* One turn of the loop over sales (lines 183-197) on row, for a date that
\* parsed: the new [sales_filtered, order_revenue, order_cost].
\* to_float(cost or 0) is to_float(cost): both give 0.0 for None and "".
filter_row(row, date_value, st) ==
  IF year_rejected(date_value) THEN st
  ELSE
    LET revenue_gbp  == to_float(Get(row, H_Revenue))
        order_number == Field(row, H_SalesOrderNumber)
        cost_value   == to_float(Get(row, H_AsSoldCost))
    IN  [sales_filtered |->
           Append(st.sales_filtered,
                  [row |-> row, _parsed_year |-> date_value.y,
                   _revenue_gbp |-> revenue_gbp, _cost_alloc_usd |-> FZero]),
         order_revenue |->
           IF order_number # <<>>
           THEN Put(st.order_revenue, order_number,
                    FAdd(GetOr(st.order_revenue, order_number, FZero), revenue_gbp))
           ELSE st.order_revenue,
         order_cost |->
           IF order_number # <<>>
           THEN remember_cost(st.order_cost, order_number, cost_value)
           ELSE st.order_cost]

\* cost_alloc with the guard "total_revenue != 0"
cost_alloc_nonzero(cost_total, revenue_gbp, total_revenue) ==
  IF ~FIsZero(total_revenue)
  THEN FMul(cost_total, FDiv(revenue_gbp, total_revenue))
  ELSE FZero

\* cost_alloc giving every line the whole cost of its order
cost_alloc_whole(cost_total, revenue_gbp, total_revenue) ==
  IF FPositive(total_revenue) THEN cost_total ELSE FZero

\* lines 204-206
cost_alloc(cost_total, revenue_gbp, total_revenue) ==
  IF FPositive(total_revenue)
  THEN FMul(cost_total, FDiv(revenue_gbp, total_revenue))
  ELSE FZero

\* the second loop (lines 199-207)
allocate(filtered, revenue_of, cost_of) ==
  [i \in 1..Len(filtered) |->
     LET order_number == Field(filtered[i].row, H_SalesOrderNumber)
     IN  [filtered[i] EXCEPT !._cost_alloc_usd =
            cost_alloc(GetOr(cost_of, order_number, FZero),
                       filtered[i]._revenue_gbp,
                       GetOr(revenue_of, order_number, FZero))]]

NewPartGroup ==
  [revenue_gbp |-> FZero, units |-> FZero, customers |-> {},
   internal_revenue_gbp |-> FZero, external_revenue_gbp |-> FZero,
   internal_units |-> FZero, external_units |-> FZero,
   internal_customers |-> {}, external_customers |-> {},
   cost_alloc_usd |-> FZero]

\* part_group_add that adds every row to the External split, an Internal
\* row to the Internal split as well
part_group_add_external_all(group, row) ==
  LET revenue_gbp   == row._revenue_gbp
      qty           == to_float(Get(row.row, H_QtyShipped))
      customer_name == Field(row.row, H_CustomerName)
      internal      == classify_customer(customer_name) = "Internal"
  IN  [revenue_gbp |-> FAdd(group.revenue_gbp, revenue_gbp),
       units |-> FAdd(group.units, qty),
       customers |-> group.customers \cup {customer_name},
       cost_alloc_usd |-> FAdd(group.cost_alloc_usd, row._cost_alloc_usd),
       internal_revenue_gbp |->
         IF internal THEN FAdd(group.internal_revenue_gbp, revenue_gbp)
         ELSE group.internal_revenue_gbp,
       internal_units |->
         IF internal THEN FAdd(group.internal_units, qty) ELSE group.internal_units,
       internal_customers |->
         IF internal THEN group.internal_customers \cup {customer_name}
         ELSE group.internal_customers,
       external_revenue_gbp |-> FAdd(group.external_revenue_gbp, revenue_gbp),
       external_units |-> FAdd(group.external_units, qty),
       external_customers |-> group.external_customers \cup {customer_name}]

\* lines 231-246: one row added to its part group
part_group_add(group, row) ==
  LET revenue_gbp   == row._revenue_gbp
      qty           == to_float(Get(row.row, H_QtyShipped))
      customer_name == Field(row.row, H_CustomerName)
      internal      == classify_customer(customer_name) = "Internal"
  IN  [revenue_gbp |-> FAdd(group.revenue_gbp, revenue_gbp),
       units |-> FAdd(group.units, qty),
       customers |-> group.customers \cup {customer_name},
       cost_alloc_usd |-> FAdd(group.cost_alloc_usd, row._cost_alloc_usd),
       internal_revenue_gbp |->
         IF internal THEN FAdd(group.internal_revenue_gbp, revenue_gbp)
         ELSE group.internal_revenue_gbp,
       internal_units |->
         IF internal THEN FAdd(group.internal_units, qty) ELSE group.internal_units,
       internal_customers |->
         IF internal THEN group.internal_customers \cup {customer_name}
         ELSE group.internal_customers,
       external_revenue_gbp |->
         IF internal THEN group.external_revenue_gbp
         ELSE FAdd(group.external_revenue_gbp, revenue_gbp),
       external_units |->
         IF internal THEN group.external_units ELSE FAdd(group.external_units, qty),
       external_customers |->
         IF internal THEN group.external_customers
         ELSE group.external_customers \cup {customer_name}]

\* the loop building part_groups (lines 209-246) from the i-th row on
RECURSIVE part_loop(_, _, _)
part_loop(filtered, i, groups) ==
  IF i > Len(filtered) THEN groups
  ELSE
    LET site    == Field(filtered[i].row, H_Site)
        part_no == Field(filtered[i].row, H_PartNumber)
        key     == <<site, part_no>>
    IN  part_loop(filtered, i + 1,
          IF site = <<>> \/ part_no = <<>> THEN groups
          ELSE Put(groups, key,
                   part_group_add(GetOr(groups, key, NewPartGroup), filtered[i])))

\* onhand_qty looked up under (part_no, site)
onhand_qty_swapped(totals, key) == GetOr(totals, <<key[2], key[1]>>, FZero)

\* inventory_totals.get((site, part_no), 0.0) (line 250)
onhand_qty(totals, key) == GetOr(totals, key, FZero)

\* part_rows (lines 248-269)
part_rows(groups, totals) ==
  LET keys == sorted(DOMAIN groups)
  IN  [i \in 1..Len(keys) |->
        LET group == groups[keys[i]]
        IN  [Site |-> keys[i][1],
             Part_Number |-> keys[i][2],
             Revenue_GBP |-> round2(group.revenue_gbp),
             Units |-> round2(group.units),
             Customer_Count |-> Cardinality(group.customers),
             Internal_Revenue_GBP |-> round2(group.internal_revenue_gbp),
             External_Revenue_GBP |-> round2(group.external_revenue_gbp),
             Internal_Units |-> round2(group.internal_units),
             External_Units |-> round2(group.external_units),
             Internal_Customer_Count |-> Cardinality(group.internal_customers),
             External_Customer_Count |-> Cardinality(group.external_customers),
             Onhand_Qty |-> round2(onhand_qty(totals, keys[i])),
             Cost_Allocated_USD |-> round2(group.cost_alloc_usd),
             Revenue_USD |-> <<>>,
             Margin_USD |-> <<>>]]

NewCustomerGroup ==
  [revenue_gbp |-> FZero, units |-> FZero, opportunities |-> {},
   cost_alloc_usd |-> FZero]

\* the loop building customer_groups (lines 293-315) from the i-th row on
RECURSIVE customer_loop(_, _, _)
customer_loop(filtered, i, groups) ==
  IF i > Len(filtered) THEN groups
  ELSE
    LET row           == filtered[i]
        site          == Field(row.row, H_Site)
        customer_name == Field(row.row, H_CustomerName)
        key           == <<site, customer_name>>
        group         == GetOr(groups, key, NewCustomerGroup)
        opportunity   == Field(row.row, H_SaleforceOppurtunity)
    IN  customer_loop(filtered, i + 1,
          IF site = <<>> \/ customer_name = <<>> THEN groups
          ELSE Put(groups, key,
                 [revenue_gbp |-> FAdd(group.revenue_gbp, row._revenue_gbp),
                  units |-> FAdd(group.units, to_float(Get(row.row, H_QtyShipped))),
                  opportunities |->
                    IF opportunity # <<>> THEN group.opportunities \cup {opportunity}
                    ELSE group.opportunities,
                  cost_alloc_usd |->
                    FAdd(group.cost_alloc_usd, row._cost_alloc_usd)]))

\* customer_rows (lines 317-332)
customer_rows(groups) ==
  LET keys == sorted(DOMAIN groups)
  IN  [i \in 1..Len(keys) |->
        LET group == groups[keys[i]]
        IN  [Site |-> keys[i][1],
             Customer_Name |-> keys[i][2],
             Customer_Type |-> classify_customer(keys[i][2]),
             Revenue_GBP |-> round2(group.revenue_gbp),
             Units |-> round2(group.units),
             Opportunity_Count |-> Cardinality(group.opportunities),
             Cost_Allocated_USD |-> round2(group.cost_alloc_usd),
             Revenue_USD |-> <<>>,
             Margin_USD |-> <<>>]]

NewCountGroup ==
  [customers |-> {}, internal_customers |-> {}, external_customers |-> {}]

\* count_loop that counts every record of a key, not every customer
RECURSIVE count_loop_per_record(_, _, _)
count_loop_per_record(filtered, i, groups) ==
  IF i > Len(filtered) THEN groups
  ELSE
    LET row           == filtered[i]
        site          == Field(row.row, H_Site)
        part_no       == Field(row.row, H_PartNumber)
        year          == row._parsed_year
        customer_name == Field(row.row, H_CustomerName)
        key           == <<site, year, part_no>>
        group         == GetOr(groups, key, NewCountGroup)
        internal      == classify_customer(customer_name) = "Internal"
    IN  count_loop_per_record(filtered, i + 1,
          IF site = <<>> \/ part_no = <<>> \/ year = 0
             \/ customer_name = <<>>
          THEN groups
          ELSE Put(groups, key,
                 [customers |-> group.customers \cup {<<i, customer_name>>},
                  internal_customers |->
                    IF internal THEN group.internal_customers \cup {<<i, customer_name>>}
                    ELSE group.internal_customers,
                  external_customers |->
                    IF internal THEN group.external_customers
                    ELSE group.external_customers \cup {<<i, customer_name>>}]))

\* the loop building customer_counts (lines 350-372) from the i-th row on;
\* "not year" holds of the year 0 (the year is never None here)
RECURSIVE count_loop(_, _, _)
count_loop(filtered, i, groups) ==
  IF i > Len(filtered) THEN groups
  ELSE
    LET row           == filtered[i]
        site          == Field(row.row, H_Site)
        part_no       == Field(row.row, H_PartNumber)
        year          == row._parsed_year
        customer_name == Field(row.row, H_CustomerName)
        key           == <<site, year, part_no>>
        group         == GetOr(groups, key, NewCountGroup)
        internal      == classify_customer(customer_name) = "Internal"
    IN  count_loop(filtered, i + 1,
          IF site = <<>> \/ part_no = <<>> \/ year = 0 \/ customer_name = <<>>
          THEN groups
          ELSE Put(groups, key,
                 [customers |-> group.customers \cup {customer_name},
                  internal_customers |->
                    IF internal THEN group.internal_customers \cup {customer_name}
                    ELSE group.internal_customers,
                  external_customers |->
                    IF internal THEN group.external_customers
                    ELSE group.external_customers \cup {customer_name}]))

\* count_rows (lines 374-385)
count_rows(groups) ==
  LET keys == sorted(DOMAIN groups)
  IN  [i \in 1..Len(keys) |->
        LET group == groups[keys[i]]
        IN  [Site |-> keys[i][1],
             Year |-> keys[i][2],
             Part_Number |-> keys[i][3],
             Customer_Count |-> Cardinality(group.customers),
             Internal_Customer_Count |-> Cardinality(group.internal_customers),
             External_Customer_Count |-> Cardinality(group.external_customers)]]

(***************************************************************************)
(* One run of main.  workbook is the input: [exists, zip, shared_strings,  *)
(* sheet1, sheet2] (the file is there, it opens as a zip archive, the      *)
(* shared-string table, the two worksheet parts).  files is the output     *)
(* directory and written the reports this run has written.  pc walks       *)
(* through main; an exception main does not catch ends the run in          *)
(* "aborted" with its name in exc.                                         *)
(***************************************************************************)
VARIABLES workbook, pc, exc, files, written,
          sales_rows, inventory_rows, sales, inventory, inventory_totals,
          row_index, sales_filtered, order_revenue, order_cost,
          part_groups, customer_groups, customer_counts

vars == <<workbook, pc, exc, files, written,
          sales_rows, inventory_rows, sales, inventory, inventory_totals,
          row_index, sales_filtered, order_revenue, order_cost,
          part_groups, customer_groups, customer_counts>>

Reports == {"Inventory_Normalized.csv", "part_level_pareto.csv",
            "customer_level_pareto.csv", "customer_counts_by_site_year_part.csv"}

io    == <<files, written>>

grids == <<sales_rows, inventory_rows>>

dicts == <<sales, inventory>>

pass1 == <<row_index, sales_filtered, order_revenue, order_cost>>

groups == <<part_groups, customer_groups, customer_counts>>

\* the state before main starts, for the input wb and the output directory dir
StartIn(wb, dir) ==
  /\ workbook = wb
  /\ pc = "exists"
  /\ exc = "none"
  /\ files = dir
  /\ written = {}
  /\ sales_rows = <<>>
  /\ inventory_rows = <<>>
  /\ sales = <<>>
  /\ inventory = <<>>
  /\ inventory_totals = <<>>
  /\ row_index = 1
  /\ sales_filtered = <<>>
  /\ order_revenue = <<>>
  /\ order_cost = <<>>
  /\ part_groups = <<>>
  /\ customer_groups = <<>>
  /\ customer_counts = <<>>

\* the state before main starts with no report in the output directory
Start(wb) == StartIn(wb, [f \in Reports |-> [present |-> FALSE, rows |-> <<>>]])

\* an output directory without reports
NoReports == [f \in Reports |-> [present |-> FALSE, rows |-> <<>>]]

\* write_csv opening the file to append ("a") instead of to write ("w")
write_csv_append(path, rows) ==
  /\ files' = [files EXCEPT ![path] = [present |-> TRUE, rows |-> @.rows \o rows]]
  /\ written' = written \cup {path}

\* an uncaught exception (or SystemExit) ends the run
Abort(name) == pc' = "aborted" /\ exc' = name

\* write_csv: the file holds the rows (under the fixed header line)
write_csv(path, rows) ==
  /\ files' = [files EXCEPT ![path] = [present |-> TRUE, rows |-> rows]]
  /\ written' = written \cup {path}

\* lines 152-153
CheckWorkbook ==
  /\ pc = "exists"
  /\ IF ~workbook.exists THEN Abort("SystemExit")
     ELSE pc' = "open" /\ exc' = exc
  /\ UNCHANGED <<workbook, io, grids, dicts, inventory_totals, pass1, groups>>

\* line 155
OpenArchive ==
  /\ pc = "open"
  /\ IF ~workbook.zip THEN Abort("BadZipFile")
     ELSE pc' = "sheet1" /\ exc' = exc
  /\ UNCHANGED <<workbook, io, grids, dicts, inventory_totals, pass1, groups>>

\* line 156
ParseSales ==
  /\ pc = "sheet1"
  /\ LET r == parse_sheet(workbook.shared_strings, workbook.sheet1)
     IN  IF ~r.ok THEN Abort(r.exc) /\ sales_rows' = sales_rows
         ELSE pc' = "sheet2" /\ exc' = exc /\ sales_rows' = r.value
  /\ UNCHANGED <<workbook, io, inventory_rows, dicts, inventory_totals,
                 pass1, groups>>

\* line 157
ParseInventory ==
  /\ pc = "sheet2"
  /\ LET r == parse_sheet(workbook.shared_strings, workbook.sheet2)
     IN  IF ~r.ok THEN Abort(r.exc) /\ inventory_rows' = inventory_rows
         ELSE pc' = "dicts" /\ exc' = exc /\ inventory_rows' = r.value
  /\ UNCHANGED <<workbook, io, sales_rows, dicts, inventory_totals,
                 pass1, groups>>

\* lines 159-160
ToDicts ==
  /\ pc = "dicts"
  /\ LET s == rows_to_dicts(sales_rows)
         i == rows_to_dicts(inventory_rows)
     IN  IF ~s.ok THEN Abort(s.exc) /\ UNCHANGED dicts
         ELSE IF ~i.ok THEN Abort(i.exc) /\ sales' = s.value /\ inventory' = inventory
         ELSE pc' = "inventory" /\ exc' = exc
              /\ sales' = s.value /\ inventory' = i.value
  /\ UNCHANGED <<workbook, io, grids, inventory_totals, pass1, groups>>

\* lines 162-168
SumInventory ==
  /\ pc = "inventory"
  /\ inventory_totals' = inventory_loop(inventory, 1, <<>>)
  /\ pc' = "write_inventory"
  /\ UNCHANGED <<workbook, exc, io, grids, dicts, pass1, groups>>

\* lines 170-178
WriteInventory ==
  /\ pc = "write_inventory"
  /\ write_csv("Inventory_Normalized.csv", inventory_output_rows(inventory_totals))
  /\ pc' = "filter"
  /\ UNCHANGED <<workbook, exc, grids, dicts, inventory_totals, pass1, groups>>

\* the loop's variables after a turn that left them as st
FilterKeep(st) ==
  /\ sales_filtered' = st.sales_filtered
  /\ order_revenue' = st.order_revenue
  /\ order_cost' = st.order_cost
  /\ row_index' = row_index + 1
  /\ UNCHANGED <<pc, exc>>

\* lines 184-197 on row; an exception out of parse_date is not caught
FilterDate(row, date_value) ==
  IF date_value.kind = "raise"
  THEN Abort(date_value.exc) /\ UNCHANGED pass1
  ELSE FilterKeep(filter_row(row, date_value,
                             [sales_filtered |-> sales_filtered,
                              order_revenue |-> order_revenue,
                              order_cost |-> order_cost]))

\* lines 183-197: one turn of the loop over sales
FilterRow ==
  /\ pc = "filter"
  /\ row_index <= Len(sales)
  /\ FilterDate(sales[row_index],
                parse_date(Get(sales[row_index], H_OrderCreationDate)))
  /\ UNCHANGED <<workbook, io, grids, dicts, inventory_totals, groups>>

\* lines 199-207
Allocate ==
  /\ pc = "filter"
  /\ row_index > Len(sales)
  /\ sales_filtered' = allocate(sales_filtered, order_revenue, order_cost)
  /\ pc' = "parts"
  /\ UNCHANGED <<workbook, exc, io, grids, dicts, inventory_totals,
                 row_index, order_revenue, order_cost, groups>>

\* lines 209-291
WriteParts ==
  /\ pc = "parts"
  /\ part_groups' = part_loop(sales_filtered, 1, <<>>)
  /\ write_csv("part_level_pareto.csv", part_rows(part_groups', inventory_totals))
  /\ pc' = "customers"
  /\ UNCHANGED <<workbook, exc, grids, dicts, inventory_totals, pass1,
                 customer_groups, customer_counts>>

\* lines 293-348
WriteCustomers ==
  /\ pc = "customers"
  /\ customer_groups' = customer_loop(sales_filtered, 1, <<>>)
  /\ write_csv("customer_level_pareto.csv", customer_rows(customer_groups'))
  /\ pc' = "counts"
  /\ UNCHANGED <<workbook, exc, grids, dicts, inventory_totals, pass1,
                 part_groups, customer_counts>>

\* lines 350-398
WriteCounts ==
  /\ pc = "counts"
  /\ customer_counts' = count_loop(sales_filtered, 1, <<>>)
  /\ write_csv("customer_counts_by_site_year_part.csv", count_rows(customer_counts'))
  /\ pc' = "done"
  /\ UNCHANGED <<workbook, exc, grids, dicts, inventory_totals, pass1,
                 part_groups, customer_groups>>

Next ==
  \/ CheckWorkbook
  \/ OpenArchive
  \/ ParseSales
  \/ ParseInventory
  \/ ToDicts
  \/ SumInventory
  \/ WriteInventory
  \/ FilterRow
  \/ Allocate
  \/ WriteParts
  \/ WriteCustomers
  \/ WriteCounts

(***************************************************************************)
(* Input workbooks.  A workbook written by a spreadsheet program keeps the *)
(* header texts in the shared-string table and the data cells as raw <v>   *)
(* text; a field that is None has no cell.                                 *)
(***************************************************************************)
RECURSIVE TextOfNat(_)
TextOfNat(n) ==
  IF n < 10 THEN <<Digits[n + 1]>>
  ELSE TextOfNat(n \div 10) \o <<Digits[(n % 10) + 1]>>

CellRef(col, rownum) == <<UpperCase[col]>> \o TextOfNat(rownum)

RawCell(col, rownum, text) ==
  [r |-> CellRef(col, rownum), t |-> None, v |-> text, is |-> None]

\* a shared-string cell whose <v> holds text
IndexCell(col, rownum, text) ==
  [r |-> CellRef(col, rownum), t |-> <<"s">>, v |-> text, is |-> None]

SharedCell(col, rownum, index) == IndexCell(col, rownum, TextOfNat(index))

RECURSIVE DataCells(_, _, _)
DataCells(fields, col, rownum) ==
  IF col > Len(fields) THEN <<>>
  ELSE (IF fields[col] = None THEN <<>>
        ELSE <<RawCell(col, rownum, fields[col])>>)
       \o DataCells(fields, col + 1, rownum)

\* the worksheet of a header row (shared strings first, first + 1, ...) and
\* one row for each of recs
SheetOf(headers, first, recs) ==
  [wellformed |-> TRUE,
   rows |-> <<[c \in 1..Len(headers) |-> SharedCell(c, 1, first + c - 1)]>>
            \o [k \in 1..Len(recs) |-> DataCells(recs[k], 1, k + 1)]]

SalesHeaders ==
  <<H_OrderCreationDate, H_Revenue, H_SalesOrderNumber, H_AsSoldCost, H_Site,
    H_PartNumber, H_QtyShipped, H_CustomerName, H_SaleforceOppurtunity>>

InventoryHeaders == <<H_Site, H_PartNo, H_OnhandQty>>

Workbook(sales_recs, inventory_recs) ==
  [exists |-> TRUE, zip |-> TRUE,
   shared_strings |-> SalesHeaders \o InventoryHeaders,
   sheet1 |-> SheetOf(SalesHeaders, 0, sales_recs),
   sheet2 |-> SheetOf(InventoryHeaders, Len(SalesHeaders), inventory_recs)]

\* one sales line, in the order of SalesHeaders
Sale(date, revenue, order, cost, site, part, qty, customer, opportunity) ==
  <<date, revenue, order, cost, site, part, qty, customer, opportunity>>

\* the sequences over S of length at most n
SeqsUpTo(S, n) == UNION {[1..k -> S] : k \in 0..n}

\* the most sales lines and inventory lines of an input workbook
MaxSales == 2

MaxInventory == 2

\* texts of the input cells
Day2024 == <<"2", "0", "2", "4", "-", "0", "3", "-", "0", "1">>

S1 == <<"S", "1">>

P1 == <<"P", "1">>

P2 == <<"P", "2">>

Acme == <<"A", "c", "m", "e">>

O1 == <<"O", "1">>

OneInventory == <<<<S1, P1, <<"2", "0">>>>>>

\* Sales lines that differ in revenue, order number and cost.
AllocSales ==
  {Sale(Day2024, <<"1">>, <<"A">>, None, S1, P1, <<"2">>, Acme, O1),
   Sale(Day2024, <<"1">>, <<"A">>, <<"3">>, S1, P1, <<"2">>, Acme, O1),
   Sale(Day2024, <<"4">>, <<"A">>, None, S1, P1, <<"2">>, Acme, O1),
   Sale(Day2024, <<"4">>, <<"A">>, <<"3">>, S1, P1, <<"2">>, Acme, O1),
   Sale(Day2024, <<"1">>, <<"B">>, <<"3">>, S1, P2, <<"2">>, Acme, O1),
   Sale(Day2024, <<"4">>, <<" ", "A", " ">>, <<"7">>, S1, P1, <<"2">>, Acme, O1),
   Sale(Day2024, <<"0">>, <<"A">>, <<"3">>, S1, P1, <<"2">>, Acme, O1),
   Sale(Day2024, <<"-", "5">>, <<"A">>, <<"3">>, S1, P1, <<"2">>, Acme, O1),
   Sale(Day2024, <<"1">>, <<" ">>, <<"3">>, S1, P1, <<"2">>, Acme, O1),
   Sale(Day2024, <<"1">>, <<"A">>, <<"0">>, S1, P1, <<"2">>, Acme, O1),
   Sale(Day2024, <<"6", "0">>, <<"A">>, <<"1", "0">>, S1, P1, <<"2">>, Acme, O1),
   Sale(Day2024, <<"4", "0">>, <<"A">>, None, S1, P1, <<"2">>, Acme, O1)}

AllocWorkbooks == {Workbook(recs, OneInventory) : recs \in SeqsUpTo(AllocSales, MaxSales)}

InitAlloc == \E wb \in AllocWorkbooks : Start(wb)

SpecAlloc == InitAlloc /\ [][Next]_vars

\* Sales lines that differ in the Order Creation Date.
YearSales ==
  {Sale(None, <<"1">>, <<"A">>, <<"3">>, S1, P1, <<"2">>, Acme, O1),
   Sale(<<"2", "0", "1", "8", "-", "1", "2", "-", "3", "1">>, <<"1">>, <<"A">>, <<"3">>, S1, P1, <<"2">>, Acme, O1),
   Sale(<<"2", "0", "1", "9", "-", "0", "1", "-", "0", "1">>, <<"1">>, <<"A">>, <<"3">>, S1, P1, <<"2">>, Acme, O1),
   Sale(<<"2", "0", "2", "5", "-", "1", "2", "-", "3", "1">>, <<"1">>, <<"A">>, <<"3">>, S1, P1, <<"2">>, Acme, O1),
   Sale(<<"2", "0", "2", "6", "-", "0", "1", "-", "0", "1">>, <<"1">>, <<"A">>, <<"3">>, S1, P1, <<"2">>, Acme, O1),
   Sale(<<"4", "3", "4", "6", "5">>, <<"1">>, <<"A">>, <<"3">>, S1, P1, <<"2">>, Acme, O1),
   Sale(<<"4", "3", "4", "6", "6", ".", "5">>, <<"1">>, <<"A">>, <<"3">>, S1, P1, <<"2">>, Acme, O1),
   Sale(<<"j", "u", "n", "k">>, <<"1">>, <<"A">>, <<"3">>, S1, P1, <<"2">>, Acme, O1),
   Sale(<<"2", "0", "2", "4", "-", "0", "3", "-", "0", "1", "T", "1", "0", ":", "3", "0">>, <<"1">>, <<"A">>, <<"3">>, S1, P1, <<"2">>, Acme, O1),
   Sale(<<"9", "9", "9", "9", "9", "9", "9">>, <<"1">>, <<"A">>, <<"3">>, S1, P1, <<"2">>, Acme, O1),
   Sale(Day2024, <<"4">>, <<"A">>, <<"7">>, S1, P1, <<"2">>, <<"E", "t", "h", "o", "s", " ", "L", "t", "d">>, <<"O", "2">>)}

YearWorkbooks == {Workbook(recs, OneInventory) : recs \in SeqsUpTo(YearSales, MaxSales)}

InitYear == \E wb \in YearWorkbooks : Start(wb)

SpecYear == InitYear /\ [][Next]_vars

\* Sales lines that differ in site, part number, customer and opportunity.
KeySales ==
  {Sale(Day2024, <<"1">>, <<"A">>, None, S1, P1, <<"2">>, Acme, O1),
   Sale(Day2024, <<"4">>, <<"A">>, None, <<" ", "S", "1", " ">>, P1, <<"2">>, Acme, O1),
   Sale(Day2024, <<"1">>, <<"A">>, None, <<"s", "1">>, P1, <<"2">>, Acme, O1),
   Sale(Day2024, <<"1">>, <<"A">>, None, <<" ">>, P1, <<"2">>, Acme, O1),
   Sale(Day2024, <<"1">>, <<"A">>, None, None, P1, <<"2">>, Acme, O1),
   Sale(Day2024, <<"1">>, <<"A">>, None, S1, <<"P", "1", " ">>, <<"2">>, <<"E", "t", "h", "o", "s", " ", "L", "t", "d">>, <<" ", "O", "1", " ">>),
   Sale(Day2024, <<"1">>, <<"A">>, None, S1, <<"p", "1">>, <<"2">>, Acme, O1),
   Sale(Day2024, <<"1">>, <<"A">>, None, S1, <<" ">>, <<"2">>, Acme, O1),
   Sale(Day2024, <<"1">>, <<"A">>, None, S1, None, <<"2">>, Acme, O1),
   Sale(Day2024, <<"1">>, <<"A">>, None, S1, P1, <<"2">>, <<" ", "A", "c", "m", "e", " ">>, None),
   Sale(Day2024, <<"1">>, <<"A">>, None, S1, P1, <<"2">>, <<" ">>, <<"O", "2">>),
   Sale(Day2024, <<"1">>, <<"A">>, None, S1, P1, <<"2">>, None, <<" ">>)}

\* Inventory lines (site, part, quantity) that differ in key and quantity.
InventoryLines ==
  {<<S1, P1, <<"5">>>>,
   <<S1, P1, <<"0", ".", "0", "0", "5">>>>,
   <<S1, P1, <<"1", ",", "2", "3", "4", ".", "5", "0">>>>,
   <<S1, P1, <<"j", "u", "n", "k">>>>,
   <<<<" ", "S", "1", " ">>, <<"P", "1", " ">>, <<"2", ".", "6", "7", "5">>>>,
   <<<<"s", "1">>, P1, <<"1">>>>,
   <<<<" ">>, P1, <<"9">>>>,
   <<S1, None, <<"9">>>>,
   <<<<"S", "2">>, <<"P", "9">>, None>>}

Inventories == SeqsUpTo(InventoryLines, MaxInventory)

KeyWorkbooks ==
  {Workbook(recs, OneInventory) : recs \in SeqsUpTo(KeySales, MaxSales)}
  \cup {Workbook(<<Sale(Day2024, <<"1">>, <<"A">>, None, S1, P1, <<"2">>, Acme, O1)>>, inv) : inv \in Inventories}

InitKeys == \E wb \in KeyWorkbooks : Start(wb)

SpecKeys == InitKeys /\ [][Next]_vars

\* the sales of the inventory runs: a part that has stock and one that has none
InventorySales ==
  {<<Sale(Day2024, <<"1">>, <<"A">>, None, S1, P1, <<"2">>, Acme, O1)>>,
   <<Sale(Day2024, <<"4">>, <<"A">>, <<"3">>, S1, P1, <<"2">>, Acme, O1),
     Sale(Day2024, <<"1">>, <<"B">>, None, <<"S", "3">>, <<"P", "3">>, <<"2">>, Acme, O1)>>}

InventoryWorkbooks == {Workbook(recs, inv) : recs \in InventorySales, inv \in Inventories}

InitInventory == \E wb \in InventoryWorkbooks : Start(wb)

SpecInventory == InitInventory /\ [][Next]_vars

\* the <v> texts of a shared-string cell: indices within the table of 12
\* strings, beyond it, negative, and no integer
IndexTexts ==
  {<<"0">>, <<"4">>, <<"1", "1">>, <<"1", "2">>, <<"9", "9">>, <<"-", "1">>, <<"-", "1", "2">>, <<"-", "1", "3">>, <<"x">>, <<" ", "4", " ">>}

\* cells for the Site column (E) of the first data row
SiteCells ==
  {IndexCell(5, 2, t) : t \in IndexTexts}
  \cup {[r |-> CellRef(5, 2), t |-> <<"s">>, v |-> None, is |-> None],
        [r |-> CellRef(5, 2), t |-> <<"i", "n", "l", "i", "n", "e", "S", "t", "r">>, v |-> None, is |-> S1],
        [r |-> CellRef(5, 2), t |-> <<"n">>, v |-> S1, is |-> None],
        [r |-> None, t |-> <<"s">>, v |-> <<"9", "9">>, is |-> None],
        [r |-> <<"e", "2">>, t |-> None, v |-> S1, is |-> None]}

\* a workbook whose one sales line has cell in its row
CellWorkbook(cell) ==
  [Workbook(<<>>, OneInventory) EXCEPT
     !.sheet1.rows = @ \o <<DataCells(Sale(Day2024, <<"1">>, <<"A">>, <<"3">>, None, P1, <<"2">>, Acme, O1), 1, 2)
                             \o <<cell>>>>]

\* inputs main cannot read: no file, no zip archive, a worksheet that is
\* not XML, a worksheet without rows
BrokenWorkbooks ==
  {[Workbook(<<>>, OneInventory) EXCEPT !.exists = FALSE],
   [Workbook(<<>>, OneInventory) EXCEPT !.zip = FALSE],
   [Workbook(<<>>, OneInventory) EXCEPT !.sheet1.wellformed = FALSE],
   [Workbook(<<>>, OneInventory) EXCEPT !.sheet2.wellformed = FALSE],
   [Workbook(<<>>, OneInventory) EXCEPT !.sheet1.rows = <<>>],
   [Workbook(<<>>, OneInventory) EXCEPT !.sheet2.rows = <<>>]}

InputWorkbooks ==
  BrokenWorkbooks
  \cup {CellWorkbook(cell) : cell \in SiteCells}
  \cup {Workbook(<<rec>>, OneInventory) : rec \in YearSales}

InitInput == \E wb \in InputWorkbooks : Start(wb)

SpecInput == InitInput /\ [][Next]_vars

\* the most sales lines of a workbook of the runs about row order
MaxOrder == 3

S10 == <<"S", "1", "0">>

P10 == <<"P", "1", "0">>

EthosLtd == <<"E", "t", "h", "o", "s", " ", "L", "t", "d">>

Day2019 == <<"2", "0", "1", "9", "-", "0", "1", "-", "0", "1">>

\* Sales lines whose keys differ in one component, in a prefix, in the case
\* of a letter and in the year.
OrderSales ==
  {Sale(Day2024, <<"1">>, <<"A">>, None, S1, P1, <<"2">>, Acme, O1),
   Sale(Day2019, <<"4">>, <<"A">>, None, S1, P10, <<"2">>, Acme, O1),
   Sale(Day2024, <<"1">>, <<"B">>, None, S10, P1, <<"2">>, EthosLtd, O1),
   Sale(Day2024, <<"1">>, <<"B">>, None, S1, P10, <<"2">>, <<"a", "c", "m", "e">>, O1),
   Sale(Day2024, <<"1">>, <<"B">>, None, <<"s", "1">>, P1, <<"2">>, Acme, O1)}

\* inventory lines out of key order, one key twice
OrderInventory ==
  <<<<S10, P1, <<"5">>>>, <<S1, P10, <<"1">>>>, <<S1, P1, <<"2">>>>, <<S1, P10, <<"3">>>>>>

OrderWorkbooks ==
  {Workbook(recs, OrderInventory) : recs \in SeqsUpTo(OrderSales, MaxOrder)}

InitOrder == \E wb \in OrderWorkbooks : Start(wb)

SpecOrder == InitOrder /\ [][Next]_vars

(***************************************************************************)
(* Properties of a run.                                                    *)
(***************************************************************************)
\* the second loop (lines 199-207) has run
Allocated == pc \in {"parts", "customers", "counts", "done"}

\* how many rows of sales the first loop has been through
Scanned == IF Allocated THEN Len(sales) ELSE row_index - 1

\* the trimmed Sales Order Number of a sheet row
OrderOf(row) == strip(OrEmpty(Get(row, H_SalesOrderNumber)))

\* the sheet row is in the year-filtered working set
InWorkingSet(row) ==
  LET date_value == parse_date(Get(row, H_OrderCreationDate))
  IN  date_value.kind = "date" /\ date_value.y \in YearMin..YearMax

\* the sum, in sheet order, of the revenue of the first n working-set
\* records of the order
RECURSIVE OrderTotalRevenue(_, _, _)
OrderTotalRevenue(filtered, n, order) ==
  IF n = 0 THEN FZero
  ELSE IF OrderOf(filtered[n].row) = order
  THEN FAdd(OrderTotalRevenue(filtered, n - 1, order), filtered[n]._revenue_gbp)
  ELSE OrderTotalRevenue(filtered, n - 1, order)

\* the sum, in sheet order, of the cost allocated to the first n working-set
\* records of the order
RECURSIVE OrderAllocated(_, _, _)
OrderAllocated(filtered, n, order) ==
  IF n = 0 THEN FZero
  ELSE IF OrderOf(filtered[n].row) = order
  THEN FAdd(OrderAllocated(filtered, n - 1, order), filtered[n]._cost_alloc_usd)
  ELSE OrderAllocated(filtered, n - 1, order)

TotalOf(order) == OrderTotalRevenue(sales_filtered, Len(sales_filtered), order)

AllocatedOf(order) == OrderAllocated(sales_filtered, Len(sales_filtered), order)

\* the cost remembered for the order, 0 if none
CostOf(order) == GetOr(order_cost, order, FZero)

\* the revenue share of the order's cost that the i-th record is due
ShareDue(i) ==
  IF FPositive(TotalOf(OrderOf(sales_filtered[i].row)))
  THEN FMul(CostOf(OrderOf(sales_filtered[i].row)),
            FDiv(sales_filtered[i]._revenue_gbp,
                 TotalOf(OrderOf(sales_filtered[i].row))))
  ELSE FZero

(* C1: once the allocation loop has run, every working-set record carries  *)
(* orderCost * (recordRevenue / orderTotalRevenue) as its allocated cost   *)
(* when the total revenue of its order is > 0, and 0 otherwise, whatever   *)
(* the order's cost; the total is the sum over the working-set records of  *)
(* the same trimmed order number, the cost the one remembered (0 if none). *)
AllocationIsRevenueShare ==
  Allocated =>
    \A i \in 1..Len(sales_filtered) :
      sales_filtered[i]._cost_alloc_usd = ShareDue(i)

\* a record with a share of a positive total, and a record of an order with
\* a cost that gets 0 because the order's total is not positive
AllocationWitness ==
  /\ Allocated
  /\ \E i \in 1..Len(sales_filtered) :
       /\ FPositive(TotalOf(OrderOf(sales_filtered[i].row)))
       /\ ~FIsZero(sales_filtered[i]._cost_alloc_usd)
  /\ \E j \in 1..Len(sales_filtered) :
       /\ ~FPositive(TotalOf(OrderOf(sales_filtered[j].row)))
       /\ ~FIsZero(CostOf(OrderOf(sales_filtered[j].row)))
       /\ FIsZero(sales_filtered[j]._cost_alloc_usd)

\* the orders of the working set, and the records of one of them
Orders == {OrderOf(sales_filtered[i].row) : i \in 1..Len(sales_filtered)} \ {<<>>}

LinesOf(order) ==
  {i \in 1..Len(sales_filtered) : OrderOf(sales_filtered[i].row) = order}

\* no record of the order has a negative revenue
NonNegative(order) == \A i \in LinesOf(order) : ~sales_filtered[i]._revenue_gbp.neg

FAbs(x) == [x EXCEPT !.neg = FALSE]

\* x <= y: a rounded difference keeps the sign of the exact one
FLessEq(x, y) == ~FPositive(FAdd(x, FNeg(y)))

\* x is a whole number of hundredths as the reports print them
WholeCents(x) == round2(x) = x

\* |cost| * (n + 1) * 2^-52
Tolerance(cost, n) == FMul(FAbs(cost), FCanon(FALSE, BOfInt(n + 1), 0 - 52))

\* the allocated costs of the order sum to its cost within the rounding of
\* the divisions, products and sums that made them
Conserved(order) ==
  FLessEq(FAbs(FAdd(AllocatedOf(order), FNeg(CostOf(order)))),
          Tolerance(CostOf(order), Cardinality(LinesOf(order))))

\* the trimmed (site, part number) of a working-set record
PartKeyOf(row) ==
  <<strip(OrEmpty(Get(row, H_Site))), strip(OrEmpty(Get(row, H_PartNumber)))>>

\* the records of a (site, part number) group
GroupLines(key) ==
  {i \in 1..Len(sales_filtered) : PartKeyOf(sales_filtered[i].row) = key}

PartReport == files["part_level_pareto.csv"]

(* C2, as the code has it: for every order of the working set with total   *)
(* revenue > 0 and no negative line, the allocated costs of its n lines    *)
(* sum to the order's cost up to binary64 rounding (within                 *)
(* |cost| * (n + 1) * 2^-52, not always exactly); and when the lines of    *)
(* such an order are exactly the lines of one (site, part number) group    *)
(* and the cost is a whole number of hundredths, that group's              *)
(* Cost_Allocated_USD in part_level_pareto.csv equals the order's cost.    *)
CostConservedWithinRounding ==
  /\ Allocated =>
       \A o \in Orders : FPositive(TotalOf(o)) /\ NonNegative(o) => Conserved(o)
  /\ PartReport.present =>
       \A k \in 1..Len(PartReport.rows) :
         \A o \in Orders :
           /\ FPositive(TotalOf(o))
           /\ NonNegative(o)
           /\ WholeCents(CostOf(o))
           /\ GroupLines(<<PartReport.rows[k].Site, PartReport.rows[k].Part_Number>>)
                = LinesOf(o)
           => PartReport.rows[k].Cost_Allocated_USD = CostOf(o)

(* C2 as stated: the allocated costs of every order with total revenue > 0 *)
(* sum exactly to the order's cost.                                        *)
CostConservedExactly ==
  Allocated => \A o \in Orders : FPositive(TotalOf(o)) => AllocatedOf(o) = CostOf(o)

\* an order of two lines whose allocated costs do not sum to its cost
\* exactly, alone in a part group that reports the cost all the same
CostConservedWitness ==
  /\ PartReport.present
  /\ \E o \in Orders :
       /\ FPositive(TotalOf(o))
       /\ NonNegative(o)
       /\ Cardinality(LinesOf(o)) > 1
       /\ ~FIsZero(CostOf(o))
       /\ AllocatedOf(o) # CostOf(o)
       /\ \E k \in 1..Len(PartReport.rows) :
            /\ GroupLines(<<PartReport.rows[k].Site, PartReport.rows[k].Part_Number>>)
                 = LinesOf(o)
            /\ PartReport.rows[k].Cost_Allocated_USD = CostOf(o)

\* the coerced cost of a sheet row
CostValue(row) == to_float(Get(row, H_AsSoldCost))

\* the i-th sheet row is a working-set record of the order with a nonzero cost
SetsCost(i, order) ==
  /\ InWorkingSet(sales[i])
  /\ OrderOf(sales[i]) = order
  /\ ~FIsZero(CostValue(sales[i]))

\* the rows scanned so far that are such records
CostSetters(order) == {i \in 1..Scanned : SetsCost(i, order)}

FirstOf(S) == CHOOSE i \in S : \A j \in S : i <= j

\* the order numbers of the sheet, blank ones left out
SheetOrders == {OrderOf(sales[i]) : i \in 1..Len(sales)} \ {<<>>}

\* the remembered costs are those of the first such record of each order
FirstCostHeld ==
  /\ DOMAIN order_cost \subseteq SheetOrders
  /\ \A o \in SheetOrders :
       IF CostSetters(o) = {} THEN o \notin DOMAIN order_cost
       ELSE /\ o \in DOMAIN order_cost
            /\ order_cost[o] = CostValue(sales[FirstOf(CostSetters(o))])

\* a remembered cost stays as it is
CostKept ==
  \A o \in DOMAIN order_cost :
    o \in DOMAIN order_cost' /\ order_cost'[o] = order_cost[o]

(* C3: at every point of the scan of the sales records, the cost           *)
(* remembered for an order is the coerced cost of the first scanned        *)
(* working-set record of that order whose cost is nonzero (none is         *)
(* remembered while there is no such record, so zero and absent costs      *)
(* never set it), and no step ever changes a cost once remembered.         *)
FirstWinsOrderCost == [](FirstCostHeld) /\ [][CostKept]_vars

\* two scanned records of one order with different nonzero costs
FirstWinsWitness ==
  \E o \in DOMAIN order_cost :
    \E i \in CostSetters(o) :
      \E j \in CostSetters(o) :
        i < j /\ CostValue(sales[i]) # CostValue(sales[j])

\* the first loop (lines 183-197) over rows alone, from the i-th row on
RECURSIVE FilterFold(_, _, _)
FilterFold(rows, i, st) ==
  IF i > Len(rows) THEN st
  ELSE FilterFold(rows, i + 1,
         filter_row(rows[i], parse_date(Get(rows[i], H_OrderCreationDate)), st))

\* the working set, with its allocated costs, of a sheet made of rows alone
WorkingSetOf(rows) ==
  LET st == FilterFold(rows, 1, [sales_filtered |-> <<>>, order_revenue |-> <<>>,
                                 order_cost |-> <<>>])
  IN  allocate(st.sales_filtered, st.order_revenue, st.order_cost)

\* the sheet rows scanned so far that the year filter must keep
KeptRows == SelectSeq(SubSeq(sales, 1, Scanned), InWorkingSet)

\* the non-blank order numbers among the kept rows
KeptOrders == {OrderOf(KeptRows[i]) : i \in 1..Len(KeptRows)} \ {<<>>}

(* C4: the working set holds exactly the scanned sales records whose Order *)
(* Creation Date yields a date of a year in 2019..2025, in sheet order     *)
(* (all of these are kept; a record with no date or a year outside the     *)
(* range is dropped); the order totals and remembered costs come from      *)
(* these records alone; and part_level_pareto, customer_level_pareto and   *)
(* customer_counts_by_site_year_part are, row for row and value for value, *)
(* what the sheet without the dropped records gives.                       *)
YearFilterDrops ==
  /\ [i \in 1..Len(sales_filtered) |-> sales_filtered[i].row] = KeptRows
  /\ DOMAIN order_revenue = KeptOrders
  /\ \A o \in KeptOrders :
       order_revenue[o] = OrderTotalRevenue(sales_filtered, Len(sales_filtered), o)
  /\ DOMAIN order_cost \subseteq KeptOrders
  /\ \A o \in DOMAIN order_cost :
       \E i \in 1..Len(KeptRows) :
         OrderOf(KeptRows[i]) = o /\ CostValue(KeptRows[i]) = order_cost[o]
  /\ files["part_level_pareto.csv"].present =>
       files["part_level_pareto.csv"].rows
         = part_rows(part_loop(WorkingSetOf(KeptRows), 1, <<>>), inventory_totals)
  /\ files["customer_level_pareto.csv"].present =>
       files["customer_level_pareto.csv"].rows
         = customer_rows(customer_loop(WorkingSetOf(KeptRows), 1, <<>>))
  /\ files["customer_counts_by_site_year_part.csv"].present =>
       files["customer_counts_by_site_year_part.csv"].rows
         = count_rows(count_loop(WorkingSetOf(KeptRows), 1, <<>>))

\* a finished run over a sheet with a kept record, a record of a year
\* outside the range, and so a report that leaves the latter out
YearFilterWitness ==
  /\ pc = "done"
  /\ \E i \in 1..Len(sales) : InWorkingSet(sales[i])
  /\ \E j \in 1..Len(sales) :
       /\ parse_date(Get(sales[j], H_OrderCreationDate)).kind = "date"
       /\ parse_date(Get(sales[j], H_OrderCreationDate)).y \notin YearMin..YearMax
  /\ Len(sales_filtered) < Len(sales)
  /\ Len(files["part_level_pareto.csv"].rows) > 0

(* C6: parse_date returns a date or no date for the Order Creation Date of *)
(* every sales record, and no run ends in an exception raised by it.       *)
DateCoercionTotal ==
  /\ \A i \in 1..Len(sales) :
       parse_date(Get(sales[i], H_OrderCreationDate)).kind \in {"date", "none"}
  /\ ~(pc = "aborted" /\ exc = "OverflowError")

SharedCells(sheet) ==
  {sheet.rows[i][j] : <<i, j>> \in
     {ij \in (1..Len(sheet.rows)) \X (1..12) :
        /\ ij[2] <= Len(sheet.rows[ij[1]])
        /\ sheet.rows[ij[1]][ij[2]].t = <<"s">>
        /\ sheet.rows[ij[1]][ij[2]].v # None
        /\ sheet.rows[ij[1]][ij[2]].r # None}}

\* the text is an integer in 0..n-1
IndexInRange(text, n) == IntOk(text) /\ IntOf(text) >= 0 /\ IntOf(text) < n

(* C7: once the sales worksheet has been decoded into a grid, every        *)
(* shared-string cell of it had an index in 0..len(table)-1: a cell with   *)
(* an index outside that range never yields a value.                       *)
SharedIndexInRange ==
  sales_rows # <<>> =>
    \A cell \in SharedCells(workbook.sheet1) :
      IndexInRange(cell.v, Len(workbook.shared_strings))

\* a field of a record, trimmed
Trimmed(row, key) == strip(OrEmpty(Get(row, key)))

InventoryKeyOf(row) == <<Trimmed(row, H_Site), Trimmed(row, H_PartNo)>>

CustomerKeyOf(row) == <<Trimmed(row, H_Site), Trimmed(row, H_CustomerName)>>

\* no component of the key is empty
Complete(key) == \A k \in 1..Len(key) : key[k] # <<>>

InventoryKeyed(row) == Complete(InventoryKeyOf(row))

PartKeyed(rec) == Complete(PartKeyOf(rec.row))

CustomerKeyed(rec) == Complete(CustomerKeyOf(rec.row))

\* the counts need the customer as well, though it is no part of their key
CountKeyed(rec) == PartKeyed(rec) /\ Trimmed(rec.row, H_CustomerName) # <<>>

InventoryReport == files["Inventory_Normalized.csv"]

CustomerReport == files["customer_level_pareto.csv"]

CountReport == files["customer_counts_by_site_year_part.csv"]

(* C9: each report has one row for each key made of the trimmed field      *)
(* values, as they are written (case kept), of the records whose key       *)
(* components are all non-empty after trimming; no row has an empty key    *)
(* field; and the groups are those of these records alone, so a record     *)
(* with an empty or absent key component adds nothing to any group.        *)
KeysTrimmedNonEmpty ==
  /\ InventoryReport.present =>
       /\ {<<InventoryReport.rows[k].Site, InventoryReport.rows[k].Part_No>> :
             k \in 1..Len(InventoryReport.rows)}
            = {InventoryKeyOf(inventory[i]) :
                 i \in {j \in 1..Len(inventory) : InventoryKeyed(inventory[j])}}
       /\ \A k \in 1..Len(InventoryReport.rows) :
            InventoryReport.rows[k].Site # <<>> /\ InventoryReport.rows[k].Part_No # <<>>
       /\ inventory_totals
            = inventory_loop(SelectSeq(inventory, InventoryKeyed), 1, <<>>)
  /\ PartReport.present =>
       /\ {<<PartReport.rows[k].Site, PartReport.rows[k].Part_Number>> :
             k \in 1..Len(PartReport.rows)}
            = {PartKeyOf(sales_filtered[i].row) :
                 i \in {j \in 1..Len(sales_filtered) : PartKeyed(sales_filtered[j])}}
       /\ \A k \in 1..Len(PartReport.rows) :
            PartReport.rows[k].Site # <<>> /\ PartReport.rows[k].Part_Number # <<>>
       /\ part_groups = part_loop(SelectSeq(sales_filtered, PartKeyed), 1, <<>>)
  /\ CustomerReport.present =>
       /\ {<<CustomerReport.rows[k].Site, CustomerReport.rows[k].Customer_Name>> :
             k \in 1..Len(CustomerReport.rows)}
            = {CustomerKeyOf(sales_filtered[i].row) :
                 i \in {j \in 1..Len(sales_filtered) : CustomerKeyed(sales_filtered[j])}}
       /\ \A k \in 1..Len(CustomerReport.rows) :
            /\ CustomerReport.rows[k].Site # <<>>
            /\ CustomerReport.rows[k].Customer_Name # <<>>
       /\ customer_groups
            = customer_loop(SelectSeq(sales_filtered, CustomerKeyed), 1, <<>>)
  /\ CountReport.present =>
       /\ {<<CountReport.rows[k].Site, CountReport.rows[k].Part_Number>> :
             k \in 1..Len(CountReport.rows)}
            = {PartKeyOf(sales_filtered[i].row) :
                 i \in {j \in 1..Len(sales_filtered) : CountKeyed(sales_filtered[j])}}
       /\ \A k \in 1..Len(CountReport.rows) :
            /\ CountReport.rows[k].Site # <<>>
            /\ CountReport.rows[k].Part_Number # <<>>
            /\ CountReport.rows[k].Year \in YearMin..YearMax
       /\ customer_counts
            = count_loop(SelectSeq(sales_filtered, CountKeyed), 1, <<>>)

\* a finished run with a record left out for a blank key component and a
\* record whose key is written without the blanks around its field
KeysWitness ==
  /\ pc = "done"
  /\ \E i \in 1..Len(sales_filtered) :
       /\ ~PartKeyed(sales_filtered[i])
       /\ Get(sales_filtered[i].row, H_Site) # None
       /\ Get(sales_filtered[i].row, H_PartNumber) # None
  /\ \E j \in 1..Len(sales_filtered) :
       /\ PartKeyed(sales_filtered[j])
       /\ Get(sales_filtered[j].row, H_Site) # Trimmed(sales_filtered[j].row, H_Site)
       /\ \E k \in 1..Len(PartReport.rows) :
            PartReport.rows[k].Site = Trimmed(sales_filtered[j].row, H_Site)

(* C8: every numeric (non-count) value in the reports, Onhand Qty of       *)
(* Inventory_Normalized.csv included, is a value rounded to 2 decimal      *)
(* places.                                                                 *)
OutputsRounded ==
  /\ \A k \in 1..Len(InventoryReport.rows) :
       WholeCents(InventoryReport.rows[k].Onhand_Qty)
  /\ \A k \in 1..Len(PartReport.rows) :
       /\ WholeCents(PartReport.rows[k].Revenue_GBP)
       /\ WholeCents(PartReport.rows[k].Units)
       /\ WholeCents(PartReport.rows[k].Onhand_Qty)
       /\ WholeCents(PartReport.rows[k].Cost_Allocated_USD)
  /\ \A k \in 1..Len(CustomerReport.rows) :
       /\ WholeCents(CustomerReport.rows[k].Revenue_GBP)
       /\ WholeCents(CustomerReport.rows[k].Units)
       /\ WholeCents(CustomerReport.rows[k].Cost_Allocated_USD)

\* the sum, in sheet order, of the Onhand Qty of the first n inventory
\* records of the key
RECURSIVE InventoryTotal(_, _)
InventoryTotal(n, key) ==
  IF n = 0 THEN FZero
  ELSE IF InventoryKeyOf(inventory[n]) = key
  THEN FAdd(InventoryTotal(n - 1, key), to_float(Get(inventory[n], H_OnhandQty)))
  ELSE InventoryTotal(n - 1, key)

\* the (site, part number) keys of the working set
SalesPartKeys ==
  {PartKeyOf(sales_filtered[i].row) :
     i \in {j \in 1..Len(sales_filtered) : PartKeyed(sales_filtered[j])}}

\* the rows of the part-level report are the parts of the working set, one
\* row each
PartRowsAreSalesParts ==
  /\ {<<PartReport.rows[k].Site, PartReport.rows[k].Part_Number>> :
        k \in 1..Len(PartReport.rows)} = SalesPartKeys
  /\ Len(PartReport.rows) = Cardinality(SalesPartKeys)

(* C10, as the code has it: the rows of part_level_pareto.csv are exactly  *)
(* the (site, part number) keys with a working-set sales record of         *)
(* non-blank site and part, so a part that only inventory has never        *)
(* appears; and each row's Onhand_Qty is the inventory total of its key    *)
(* rounded to 2 decimal places, 0 when inventory has no such key.          *)
PartReportLeftJoinRounded ==
  PartReport.present =>
    /\ PartRowsAreSalesParts
    /\ \A k \in 1..Len(PartReport.rows) :
         PartReport.rows[k].Onhand_Qty
           = round2(InventoryTotal(Len(inventory),
                      <<PartReport.rows[k].Site, PartReport.rows[k].Part_Number>>))

(* C10 as stated: each row's Onhand_Qty is the inventory total of its key, *)
(* or 0 when inventory has no such key.                                    *)
PartReportLeftJoin ==
  PartReport.present =>
    /\ PartRowsAreSalesParts
    /\ \A k \in 1..Len(PartReport.rows) :
         PartReport.rows[k].Onhand_Qty
           = InventoryTotal(Len(inventory),
               <<PartReport.rows[k].Site, PartReport.rows[k].Part_Number>>)

\* a report with a part that has stock, a part that has none, and a part of
\* the inventory that no sales record has
LeftJoinWitness ==
  /\ PartReport.present
  /\ \E k \in 1..Len(PartReport.rows) :
       /\ <<PartReport.rows[k].Site, PartReport.rows[k].Part_Number>>
            \in DOMAIN inventory_totals
       /\ ~FIsZero(PartReport.rows[k].Onhand_Qty)
  /\ \E k \in 1..Len(PartReport.rows) :
       /\ <<PartReport.rows[k].Site, PartReport.rows[k].Part_Number>>
            \notin DOMAIN inventory_totals
       /\ FIsZero(PartReport.rows[k].Onhand_Qty)
  /\ DOMAIN inventory_totals \ SalesPartKeys # {}

\* the key tuples of the rows of the reports, in file order
InventoryKeys ==
  [k \in 1..Len(InventoryReport.rows) |->
     <<InventoryReport.rows[k].Site, InventoryReport.rows[k].Part_No>>]

PartKeys ==
  [k \in 1..Len(PartReport.rows) |->
     <<PartReport.rows[k].Site, PartReport.rows[k].Part_Number>>]

CustomerKeys ==
  [k \in 1..Len(CustomerReport.rows) |->
     <<CustomerReport.rows[k].Site, CustomerReport.rows[k].Customer_Name>>]

CountKeys ==
  [k \in 1..Len(CountReport.rows) |->
     <<CountReport.rows[k].Site, CountReport.rows[k].Year,
       CountReport.rows[k].Part_Number>>]

\* every key is less than all keys after it
Ascending(keys) ==
  \A i \in 1..Len(keys) : \A j \in 1..Len(keys) : i < j => KeyLess(keys[i], keys[j])

Range(seq) == {seq[i] : i \in 1..Len(seq)}

CountKeyOf(rec) ==
  <<Trimmed(rec.row, H_Site), rec._parsed_year, Trimmed(rec.row, H_PartNumber)>>

\* the keys the input gives each report, as sets (no order of rows in them)
InventoryKeySet ==
  {InventoryKeyOf(inventory[i]) :
     i \in {j \in 1..Len(inventory) : InventoryKeyed(inventory[j])}}

CustomerKeySet ==
  {CustomerKeyOf(sales_filtered[i].row) :
     i \in {j \in 1..Len(sales_filtered) : CustomerKeyed(sales_filtered[j])}}

CountKeySet ==
  {CountKeyOf(sales_filtered[i]) :
     i \in {j \in 1..Len(sales_filtered) : CountKeyed(sales_filtered[j])}}

(* C11: in each of the four reports the rows are in strictly ascending     *)
(* order of the key tuple, (site, part), (site, customer) or (site, year,  *)
(* part), so no key has two rows; and the keys are those of the set of     *)
(* input records, whatever the order of the input rows.                    *)
ReportsAscending ==
  /\ InventoryReport.present =>
       Ascending(InventoryKeys) /\ Range(InventoryKeys) = InventoryKeySet
  /\ PartReport.present =>
       Ascending(PartKeys) /\ Range(PartKeys) = SalesPartKeys
  /\ CustomerReport.present =>
       Ascending(CustomerKeys) /\ Range(CustomerKeys) = CustomerKeySet
  /\ CountReport.present =>
       Ascending(CountKeys) /\ Range(CountKeys) = CountKeySet

\* a finished run whose input rows were not in key order, with two records
\* of one key, and whose four reports have two rows or more
AscendingWitness ==
  /\ pc = "done"
  /\ Len(InventoryKeys) >= 2 /\ Len(PartKeys) >= 2
  /\ Len(CustomerKeys) >= 2 /\ Len(CountKeys) >= 2
  /\ \E i \in 1..Len(inventory) : \E j \in 1..Len(inventory) :
       i < j /\ KeyLess(InventoryKeyOf(inventory[j]), InventoryKeyOf(inventory[i]))
  /\ \E i \in 1..Len(sales_filtered) : \E j \in 1..Len(sales_filtered) :
       /\ i < j
       /\ KeyLess(PartKeyOf(sales_filtered[j].row), PartKeyOf(sales_filtered[i].row))
       /\ KeyLess(CountKeyOf(sales_filtered[i]), CountKeyOf(sales_filtered[j]))
  /\ \E i \in 1..Len(sales_filtered) : \E j \in 1..Len(sales_filtered) :
       i < j /\ PartKeyOf(sales_filtered[j].row) = PartKeyOf(sales_filtered[i].row)

\* a report file of these rows
Holding(rows) == [present |-> TRUE, rows |-> rows]

\* parse_date raises on the Order Creation Date of one of the records
DateRaises(recs) ==
  \E k \in 1..Len(recs) :
    parse_date(Get(recs[k], H_OrderCreationDate)).kind = "raise"

\* the reports of the working set ws and the inventory totals, put in dir
reports_of(dir, ws, totals) ==
  [dir EXCEPT
     !["part_level_pareto.csv"] = Holding(part_rows(part_loop(ws, 1, <<>>), totals)),
     !["customer_level_pareto.csv"] = Holding(customer_rows(customer_loop(ws, 1, <<>>))),
     !["customer_counts_by_site_year_part.csv"] =
        Holding(count_rows(count_loop(ws, 1, <<>>)))]

\* main from line 162 on, for the records of the two sheets
main_from_dicts(dir, recs, inv, totals) ==
  IF DateRaises(recs)
  THEN [dir EXCEPT !["Inventory_Normalized.csv"] = Holding(inventory_output_rows(totals))]
  ELSE reports_of([dir EXCEPT !["Inventory_Normalized.csv"] =
                               Holding(inventory_output_rows(totals))],
                  WorkingSetOf(recs), totals)

\* main from line 159 on, for the two grids
main_from_grids(dir, g1, g2) ==
  IF ~g1.ok \/ ~g2.ok THEN dir
  ELSE IF ~rows_to_dicts(g1.value).ok \/ ~rows_to_dicts(g2.value).ok THEN dir
  ELSE main_from_dicts(dir, rows_to_dicts(g1.value).value, rows_to_dicts(g2.value).value,
                       inventory_loop(rows_to_dicts(g2.value).value, 1, <<>>))

\* the output directory a whole run of main on wb makes of dir (a run that
\* is ended by an exception leaves what it had written by then)
main_files(wb, dir) ==
  IF ~wb.exists \/ ~wb.zip THEN dir
  ELSE main_from_grids(dir, parse_sheet(wb.shared_strings, wb.sheet1),
                       parse_sheet(wb.shared_strings, wb.sheet2))

\* Sales lines of the runs over a directory with reports: two parts, a year
\* out of the range, a date parse_date raises on
RerunSales ==
  {Sale(Day2024, <<"1">>, <<"A">>, <<"3">>, S1, P1, <<"2">>, Acme, O1),
   Sale(Day2024, <<"4">>, <<"A">>, None, S10, P1, <<"2">>, EthosLtd, <<"O", "2">>),
   Sale(<<"2", "0", "1", "8", "-", "1", "2", "-", "3", "1">>, <<"1">>, <<"A">>, <<"3">>, S1, P1, <<"2">>, Acme, O1),
   Sale(<<"9", "9", "9", "9", "9", "9", "9">>, <<"1">>, <<"A">>, <<"3">>, S1, P1, <<"2">>, Acme, O1)}

RerunWorkbooks ==
  BrokenWorkbooks
  \cup {Workbook(recs, OneInventory) : recs \in SeqsUpTo(RerunSales, MaxSales)}

\* the input of an earlier run over other data
StaleWorkbook ==
  Workbook(<<Sale(Day2019, <<"4">>, <<"A">>, None, S1, P10, <<"2">>, Acme, O1),
             Sale(Day2024, <<"1">>, <<"B">>, None, <<"s", "1">>, P1, <<"2">>, Acme, O1)>>,
           OrderInventory)

\* main starts in a directory that is empty, or holds what an earlier run
\* on the same workbook or on other data has left
InitRerun ==
  \E wb \in RerunWorkbooks :
    \E dir \in {NoReports, main_files(wb, NoReports), main_files(StaleWorkbook, NoReports)} :
      StartIn(wb, dir)

SpecRerun == InitRerun /\ [][Next]_vars

\* every file this run has written holds what the workbook alone gives
WrittenFromInput ==
  \A f \in written : files[f] = main_files(workbook, NoReports)[f]

\* the directory is as a run on this workbook leaves an empty directory
AsAfterRun == files = main_files(workbook, NoReports)

(* C12: every file a run has written holds exactly the rows the workbook   *)
(* gives, with nothing of what the file held before; a run that reaches    *)
(* the end has written all four files; and a run started in the directory  *)
(* an earlier run on the same workbook has left keeps every file as it     *)
(* was, so the contents after the second run are those after the first.    *)
RerunIdentical ==
  /\ [](WrittenFromInput /\ (pc = "done" => written = Reports))
  /\ (AsAfterRun => []AsAfterRun)

\* a second run under way: it has rewritten the inventory report, the
\* other three are still those of the first run, and all four have rows
RerunWitness ==
  /\ pc = "parts"
  /\ written = {"Inventory_Normalized.csv"}
  /\ AsAfterRun
  /\ \A f \in Reports : files[f].present /\ Len(files[f].rows) > 0

\* Order Creation Date texts: serial numbers (one of them also an ISO
\* date without dashes), slashed dates that read month first or day first,
\* the other formats, and a date no format accepts
DateTexts ==
  {<<"1">>,
   <<"2", "0", "2", "4", "0", "3", "0", "1">>,
   <<" ", "4", "5", "3", "5", "2", ".", "7", "5", " ">>,
   <<"-", "1", ".", "5">>,
   <<"0", "3", "/", "0", "1", "/", "2", "0", "2", "4">>,
   <<"1", "3", "/", "0", "1", "/", "2", "0", "2", "4">>,
   <<"2", "0", "2", "4", "/", "0", "3", "/", "0", "1">>,
   <<"2", "0", "2", "4", "-", "0", "3", "-", "0", "1", "T", "1", "0", ":", "3", "0">>,
   <<"2", "0", "2", "4", "0", "3", "0", "1", "T", "1", "0">>,
   <<"3", "0", "/", "0", "2", "/", "2", "0", "2", "4">>,
   Day2024}

DateSales == {Sale(t, <<"1">>, <<"A">>, <<"3">>, S1, P1, <<"2">>, Acme, O1) : t \in DateTexts}

DateWorkbooks == {Workbook(recs, OneInventory) : recs \in SeqsUpTo(DateSales, MaxSales)}

InitDate == \E wb \in DateWorkbooks : StartIn(wb, NoReports)

SpecDate == InitDate /\ [][Next]_vars

\* the days of year y before its month m
RECURSIVE DaysBeforeMonth(_, _)
DaysBeforeMonth(y, m) ==
  IF m = 1 THEN 0 ELSE DaysBeforeMonth(y, m - 1) + DaysInMonth(y, m - 1)

\* the number of the day in the proleptic Gregorian calendar, 0001-01-01
\* being day 1
OrdinalOf(date) ==
  365 * (date.y - 1) + ((date.y - 1) \div 4) - ((date.y - 1) \div 100)
  + ((date.y - 1) \div 400) + DaysBeforeMonth(date.y, date.m) + date.d

\* the whole days of a serial text: the number it writes, rounded down
SerialDays(t) ==
  LET neg   == t[1] = "-"
      ps    == Split(IF neg THEN Tail(t) ELSE t, ".")
      whole == IntOfDigits(ps[1])
      frac  == Len(ps) = 2 /\ \E i \in 1..Len(ps[2]) : ps[2][i] # "0"
  IN  IF ~neg THEN whole ELSE IF frac THEN 0 - whole - 1 ELSE 0 - whole

\* date is what reading t as a serial day count added to 1899-12-30 gives:
\* that day, or OverflowError when there is no such day in years 1..9999
IsSerialReading(t, date) ==
  IF SerialBase + SerialDays(t) \in 1..MaxOrdinal
  THEN /\ date.kind = "date"
       /\ ValidDate(date.y, date.m, date.d)
       /\ OrdinalOf(date) = OrdinalOf(Date(1899, 12, 30)) + SerialDays(t)
  ELSE date = Raised("OverflowError")

\* the first of YYYY-MM-DD, MM/DD/YYYY, DD/MM/YYYY, YYYY/MM/DD and ISO-8601
\* that parses t, NoDate when none does
FirstTextReading(t) ==
  IF strptime(t, "%Y-%m-%d") # NoDate THEN strptime(t, "%Y-%m-%d")
  ELSE IF strptime(t, "%m/%d/%Y") # NoDate THEN strptime(t, "%m/%d/%Y")
  ELSE IF strptime(t, "%d/%m/%Y") # NoDate THEN strptime(t, "%d/%m/%Y")
  ELSE IF strptime(t, "%Y/%m/%d") # NoDate THEN strptime(t, "%Y/%m/%d")
  ELSE fromisoformat(t)

\* the Order Creation Date texts of the sales records, trimmed
SheetDateTexts ==
  {strip(Get(sales[i], H_OrderCreationDate)) :
     i \in {j \in 1..Len(sales) : Get(sales[j], H_OrderCreationDate) # None}}
  \ {<<>>}

(* C13: for the Order Creation Date of every sales record, a text that is  *)
(* a plain integer or decimal is read as a serial day count added to       *)
(* 1899-12-30 (serial 1 is 1899-12-31; a count that leads out of the years *)
(* 1..9999 ends in OverflowError) and never as one of the textual formats, *)
(* even when one of them would parse it; any other text gets the first of  *)
(* YYYY-MM-DD, MM/DD/YYYY, DD/MM/YYYY, YYYY/MM/DD, ISO-8601 that parses    *)
(* it, so "03/01/2024" is 2024-03-01 and the day-first reading is the      *)
(* result only when the month-first reading is invalid; and the year of a  *)
(* working-set record is the year of that date.                            *)
DatePrecedence ==
  /\ \A t \in SheetDateTexts :
       /\ IsSerialText(t) => IsSerialReading(t, parse_date(t))
       /\ ~IsSerialText(t) => parse_date(t) = FirstTextReading(t)
       /\ t = <<"1">> => parse_date(t) = Date(1899, 12, 31)
       /\ t = <<"0", "3", "/", "0", "1", "/", "2", "0", "2", "4">>
            => parse_date(t) = Date(2024, 3, 1)
       /\ (~IsSerialText(t) /\ strptime(t, "%m/%d/%Y") # NoDate)
            => parse_date(t) = strptime(t, "%m/%d/%Y")
  /\ \A i \in 1..Len(sales_filtered) :
       sales_filtered[i]._parsed_year
         = parse_date(Get(sales_filtered[i].row, H_OrderCreationDate)).y

\* the first loop has kept a slashed date that is valid only day first and
\* has then come to a serial text that ISO-8601 would parse
DatePrecedenceWitness ==
  /\ pc = "aborted"
  /\ exc = "OverflowError"
  /\ Len(sales_filtered) = 1
  /\ \E t \in SheetDateTexts : IsSerialText(t) /\ FirstTextReading(t) # NoDate
  /\ \E t \in SheetDateTexts :
       /\ strptime(t, "%m/%d/%Y") = NoDate
       /\ strptime(t, "%d/%m/%Y") # NoDate
       /\ parse_date(t) = strptime(t, "%d/%m/%Y")

\* Sales lines of one site that differ in customer, opportunity and amounts
CustomerSales ==
  {Sale(Day2024, <<"1">>, <<"A">>, <<"3">>, S1, P1, <<"2">>, Acme, O1),
   Sale(Day2024, <<"0", ".", "0", "0", "5">>, <<"A">>, None, S1, P10, <<"2", ".", "6", "7", "5">>, Acme, <<" ", "O", "1", " ">>),
   Sale(Day2024, <<"4">>, <<"B">>, <<"7">>, S1, P1, <<"1">>, Acme, <<"O", "2">>),
   Sale(Day2019, <<"4">>, <<"A">>, None, S1, P1, <<"1">>, <<" ", "A", "c", "m", "e", " ">>, None),
   Sale(Day2024, <<"1">>, None, None, S1, P1, <<"1">>, Acme, <<" ">>),
   Sale(Day2024, <<"1">>, <<"A">>, None, S1, P1, <<"2">>, <<"E", "T", "H", "O", "S">>, O1),
   Sale(Day2024, <<"1">>, <<"A">>, None, S1, P1, <<"2">>, <<"T", "h", "e", " ", "e", "t", "h", "o", "s", " ", "C", "o">>, O1),
   Sale(Day2019, <<"1">>, <<"A">>, None, S1, P1, <<"2">>, EthosLtd, <<"O", "2">>),
   Sale(Day2024, <<"1">>, <<"A">>, None, S1, P1, <<"2">>, <<"E", "t", "h", " ", "o", "s">>, O1),
   Sale(Day2024, <<"1">>, <<"A">>, None, S1, P1, <<"2">>, None, O1),
   Sale(<<"2", "0", "1", "8", "-", "1", "2", "-", "3", "1">>, <<"1">>, <<"A">>, None, S1, P1, <<"2">>, <<"Z", "e", "d">>, O1)}

CustomerWorkbooks ==
  {Workbook(recs, OneInventory) : recs \in SeqsUpTo(CustomerSales, MaxSales)}

InitCustomer == \E wb \in CustomerWorkbooks : StartIn(wb, NoReports)

SpecCustomer == InitCustomer /\ [][Next]_vars

\* the amount of a working-set record: its revenue, its units, or the cost
\* allocated to it
Amount(rec, what) ==
  IF what = "revenue" THEN rec._revenue_gbp
  ELSE IF what = "units" THEN to_float(Get(rec.row, H_QtyShipped))
  ELSE rec._cost_alloc_usd

\* the sum, in sheet order, of an amount over the first n working-set
\* records of a (site, customer name) key
RECURSIVE CustomerSum(_, _, _)
CustomerSum(n, key, what) ==
  IF n = 0 THEN FZero
  ELSE IF CustomerKeyOf(sales_filtered[n].row) = key
  THEN FAdd(CustomerSum(n - 1, key, what), Amount(sales_filtered[n], what))
  ELSE CustomerSum(n - 1, key, what)

\* the distinct non-blank trimmed opportunity identifiers of a key
OpportunitiesOf(key) ==
  {Trimmed(sales_filtered[i].row, H_SaleforceOppurtunity) :
     i \in {j \in 1..Len(sales_filtered) : CustomerKeyOf(sales_filtered[j].row) = key}}
  \ {<<>>}

\* the name has the letters e, t, h, o, s in a row, in either case
HasEthos(name) ==
  \E i \in 1..(Len(name) - 4) :
    /\ name[i] \in {"e", "E"} /\ name[i + 1] \in {"t", "T"} /\ name[i + 2] \in {"h", "H"}
    /\ name[i + 3] \in {"o", "O"} /\ name[i + 4] \in {"s", "S"}

\* one row for each (site, customer name) key of the working set, with its
\* opportunity count and customer type
CustomerRowsKeyed ==
  /\ Range(CustomerKeys) = CustomerKeySet
  /\ Len(CustomerKeys) = Cardinality(CustomerKeySet)
  /\ \A k \in 1..Len(CustomerReport.rows) :
       /\ CustomerReport.rows[k].Opportunity_Count
            = Cardinality(OpportunitiesOf(CustomerKeys[k]))
       /\ CustomerReport.rows[k].Customer_Type
            = IF HasEthos(CustomerKeys[k][2]) THEN "Internal" ELSE "External"

(* C14, as the code has it: customer_level_pareto has one row for each     *)
(* (site, customer name) key of the working set; its Revenue_GBP, Units    *)
(* and Cost_Allocated_USD are the sums, in sheet order, over the           *)
(* working-set records of the key, each rounded to 2 decimal places;       *)
(* Opportunity_Count is the number of distinct non-blank trimmed           *)
(* opportunity identifiers of these records; Customer_Type is Internal     *)
(* exactly when the name contains "ethos" in any letter case.              *)
CustomerParetoRounded ==
  CustomerReport.present =>
    /\ CustomerRowsKeyed
    /\ \A k \in 1..Len(CustomerReport.rows) :
         /\ CustomerReport.rows[k].Revenue_GBP
              = round2(CustomerSum(Len(sales_filtered), CustomerKeys[k], "revenue"))
         /\ CustomerReport.rows[k].Units
              = round2(CustomerSum(Len(sales_filtered), CustomerKeys[k], "units"))
         /\ CustomerReport.rows[k].Cost_Allocated_USD
              = round2(CustomerSum(Len(sales_filtered), CustomerKeys[k], "cost"))

(* C14 as stated: Revenue_GBP, Units and Cost_Allocated_USD are the sums   *)
(* over the working-set records of the key.                                *)
CustomerParetoSums ==
  CustomerReport.present =>
    /\ CustomerRowsKeyed
    /\ \A k \in 1..Len(CustomerReport.rows) :
         /\ CustomerReport.rows[k].Revenue_GBP
              = CustomerSum(Len(sales_filtered), CustomerKeys[k], "revenue")
         /\ CustomerReport.rows[k].Units
              = CustomerSum(Len(sales_filtered), CustomerKeys[k], "units")
         /\ CustomerReport.rows[k].Cost_Allocated_USD
              = CustomerSum(Len(sales_filtered), CustomerKeys[k], "cost")

\* a report with a customer of two records that name one opportunity (one
\* of them with blanks around it) and have a cost allocated, and so a row
\* of opportunity count 1
CustomerParetoWitness ==
  /\ CustomerReport.present
  /\ \E k \in 1..Len(CustomerReport.rows) :
       /\ CustomerReport.rows[k].Opportunity_Count = 1
       /\ ~FIsZero(CustomerReport.rows[k].Cost_Allocated_USD)
       /\ \E i \in 1..Len(sales_filtered) : \E j \in 1..Len(sales_filtered) :
            /\ i < j
            /\ CustomerKeyOf(sales_filtered[i].row) = CustomerKeys[k]
            /\ CustomerKeyOf(sales_filtered[j].row) = CustomerKeys[k]
            /\ Get(sales_filtered[i].row, H_SaleforceOppurtunity)
                 # Get(sales_filtered[j].row, H_SaleforceOppurtunity)

\* the distinct trimmed customer names of the working-set records of a
\* (site, year, part number) key that have a site, a part and a customer
CustomersOf(key) ==
  {Trimmed(sales_filtered[i].row, H_CustomerName) :
     i \in {j \in 1..Len(sales_filtered) :
              CountKeyed(sales_filtered[j]) /\ CountKeyOf(sales_filtered[j]) = key}}

\* the sheet rows that have a year of their own: those the first loop gave
\* a _parsed_year, which are the rows of the working set
RowsWithYear == {sales_filtered[i].row : i \in 1..Len(sales_filtered)}

(* C15: customer_counts_by_site_year_part has one row for each (site,      *)
(* year, part number) key of the records that have a per-record year (the  *)
(* working set) and a non-blank site, part and customer, the year being    *)
(* the record's own; Customer_Count is the number of distinct trimmed      *)
(* customer names among these records, so a customer of several records of *)
(* one key counts once there and a customer of two years counts in each    *)
(* year's row; a sheet row without a year of its own has no row.           *)
CustomerCountsDistinct ==
  CountReport.present =>
    /\ Range(CountKeys) = CountKeySet
    /\ Len(CountKeys) = Cardinality(CountKeySet)
    /\ \A k \in 1..Len(CountReport.rows) :
         /\ CountReport.rows[k].Customer_Count = Cardinality(CustomersOf(CountKeys[k]))
         /\ CountReport.rows[k].Customer_Count >= 1
         /\ \E row \in RowsWithYear :
              /\ PartKeyOf(row) = <<CountKeys[k][1], CountKeys[k][3]>>
              /\ parse_date(Get(row, H_OrderCreationDate)).y = CountKeys[k][2]
    /\ \A i \in 1..Len(sales) :
         sales[i] \notin RowsWithYear =>
           \A k \in 1..Len(CountReport.rows) :
             Trimmed(sales[i], H_CustomerName) \notin CustomersOf(CountKeys[k])

\* a customer of two records whose cells differ only in blanks, one record
\* in each of two years: a row for each year, each with Customer_Count 1
CustomerCountsWitness ==
  /\ CountReport.present
  /\ Len(CountReport.rows) = 2
  /\ CountKeys[1][1] = CountKeys[2][1] /\ CountKeys[1][3] = CountKeys[2][3]
  /\ CountKeys[1][2] # CountKeys[2][2]
  /\ CountReport.rows[1].Customer_Count = 1 /\ CountReport.rows[2].Customer_Count = 1
  /\ CustomersOf(CountKeys[1]) = CustomersOf(CountKeys[2])
  /\ Get(sales_filtered[1].row, H_CustomerName) # Get(sales_filtered[2].row, H_CustomerName)

(***************************************************************************)
(* Sheets given cell by cell: header rows with padded, blank, missing and  *)
(* repeated names, and data rows with no cell, cells without a reference,  *)
(* cells out of column order, a column given twice, columns left out and   *)
(* columns beyond Z.                                                       *)
(***************************************************************************)
Ref(letters, rownum) == letters \o TextOfNat(rownum)

\* <c r=ref><v>text</v></c>, and <c r=ref/> when text is None
Cell(ref, text) == [r |-> ref, t |-> None, v |-> text, is |-> None]

\* <c r=ref t="inlineStr"><is><t>text</t></is></c>
InlineCell(ref, text) ==
  [r |-> ref, t |-> <<"i", "n", "l", "i", "n", "e", "S", "t", "r">>, v |-> None, is |-> text]

\* the text with every blank doubled and blanks put around it
RECURSIVE Doubled(_)
Doubled(t) ==
  IF t = <<>> THEN <<>>
  ELSE (IF t[1] = " " THEN <<" ", "\t">> ELSE <<t[1]>>) \o Doubled(Tail(t))

Padded(t) == <<" ">> \o Doubled(t) \o <<" ", "\n">>

S2 == <<"S", "2">>

\* the letters of the columns beyond the nine of the sales sheet
ColTexts == {<<"Z">>, <<"A", "A">>, <<"A", "B">>, <<"A", "Z">>, <<"B", "A">>, <<"Z", "Z">>}

GridHeaders ==
  {SheetOf(SalesHeaders, 0, <<>>).rows[1],
   <<Cell(Ref(<<"A">>, 1), Padded(H_OrderCreationDate)),
     Cell(Ref(<<"B">>, 1), H_Revenue),
     Cell(Ref(<<"C">>, 1), <<" ", " ">>),
     Cell(Ref(<<"E">>, 1), H_CustomerName),
     Cell(Ref(<<"F">>, 1), Padded(H_PartNumber)),
     InlineCell(Ref(<<"G">>, 1), <<>>),
     Cell(Ref(<<"H">>, 1), H_CustomerName),
     Cell(Ref(<<"I">>, 1), H_Site),
     Cell(Ref(<<"A", "A">>, 1), H_QtyShipped)>>,
   <<Cell(Ref(<<"E">>, 1), H_Site),
     Cell(Ref(<<"A">>, 1), H_OrderCreationDate),
     Cell(Ref(<<"F">>, 1), H_PartNumber)>>}

GridRows ==
  {DataCells(Sale(Day2024, <<"1">>, <<"A">>, <<"3">>, S1, P1, <<"2">>, Acme, O1), 1, 2),
   <<>>,
   <<[r |-> None, t |-> None, v |-> S1, is |-> None]>>,
   <<[r |-> <<>>, t |-> None, v |-> S1, is |-> None],
     [r |-> None, t |-> <<"s">>, v |-> <<"4">>, is |-> None]>>,
   <<Cell(Ref(<<"A">>, 2), Day2024), Cell(Ref(<<"E">>, 2), S1), Cell(Ref(<<"F">>, 2), P1)>>,
   <<Cell(Ref(<<"I">>, 2), S2), Cell(Ref(<<"F">>, 2), P1), Cell(Ref(<<"E">>, 2), S1),
     Cell(Ref(<<"A">>, 2), Day2024)>>,
   <<Cell(Ref(<<"A">>, 2), Day2024), Cell(Ref(<<"E">>, 2), S1), Cell(Ref(<<"F">>, 2), P1),
     [r |-> None, t |-> None, v |-> P2, is |-> None],
     Cell(Ref(<<"E">>, 2), S2), InlineCell(Ref(<<"H">>, 2), Acme),
     Cell(Ref(<<"A", "A">>, 2), <<"5">>)>>,
   <<Cell(Ref(<<"B">>, 2), None)>>,
   <<SharedCell(3, 2, 4)>>}
  \cup {<<Cell(Ref(col, 2), Acme)>> : col \in ColTexts}

GridWorkbooks ==
  {[Workbook(<<>>, OneInventory) EXCEPT !.sheet1.rows = <<header>> \o rows] :
     header \in GridHeaders, rows \in SeqsUpTo(GridRows, MaxSales)}

InitGrid == \E wb \in GridWorkbooks : Start(wb)

SpecGrid == InitGrid /\ [][Next]_vars

\* the sales sheet has been decoded into sales_rows
SalesDecoded == pc \notin {"exists", "open", "sheet1", "aborted"}

\* the cells of a <row> that have a reference, in document order
ReferencedCells(xml_row) ==
  SelectSeq(xml_row, LAMBDA cell : cell.r # None /\ cell.r # <<>>)

\* the <row> elements that have a cell with a reference
NonEmptyRows(sheet) ==
  SelectSeq(sheet.rows, LAMBDA xml_row : ReferencedCells(xml_row) # <<>>)

\* the 0-based column a cell's reference names
ColumnOf(cell) == col_to_idx(col_letters(cell.r))

\* the greatest column the cells name
MaxColumn(cells) ==
  CHOOSE c \in {ColumnOf(cells[i]) : i \in 1..Len(cells)} :
    \A i \in 1..Len(cells) : ColumnOf(cells[i]) <= c

\* the resolved value of the last of the cells that names column c, None
\* when no cell names it
ValueAt(shared_strings, cells, c) ==
  LET at == {i \in 1..Len(cells) : ColumnOf(cells[i]) = c}
  IN  IF at = {} THEN None
      ELSE cell_value(shared_strings, cells[CHOOSE i \in at : \A j \in at : j <= i]).value

(* C16: the grid of a sheet has one row for each <row> element that has a  *)
(* cell with a reference, in the order of these elements; the row's length *)
(* is the greatest column index among the row's references plus 1, a       *)
(* column a cell names holds that cell's resolved value (the last such     *)
(* cell's when several name it) and a column no cell names is absent; a    *)
(* <row> without a referenced cell gives no row.                           *)
GridDense ==
  SalesDecoded =>
    LET xml_rows == NonEmptyRows(workbook.sheet1)
    IN  /\ Len(sales_rows) = Len(xml_rows)
        /\ \A k \in 1..Len(xml_rows) :
             LET cells == ReferencedCells(xml_rows[k])
             IN  /\ Len(sales_rows[k]) = MaxColumn(cells) + 1
                 /\ \A c \in 0..MaxColumn(cells) :
                      sales_rows[k][c + 1] = ValueAt(workbook.shared_strings, cells, c)

\* a sheet with a <row> that gives no grid row, decoded into a grid with a
\* row that has an absent column between two columns that cells name
GridDenseWitness ==
  /\ SalesDecoded
  /\ Len(sales_rows) < Len(workbook.sheet1.rows)
  /\ \E k \in 2..Len(sales_rows) :
       /\ Len(sales_rows[k]) = 9
       /\ sales_rows[k][1] = Day2024 /\ sales_rows[k][2] = None /\ sales_rows[k][5] = S1
       /\ sales_rows[k][9] = S2

\* the sales grid has been turned into the records of sales
SalesProjected == pc \notin {"exists", "open", "sheet1", "sheet2", "dicts", "aborted"}

\* the text with every run of whitespace replaced by one blank
RECURSIVE Collapsed(_)
Collapsed(t) ==
  IF t = <<>> THEN <<>>
  ELSE IF ~IsSpace(t[1]) THEN <<t[1]>> \o Collapsed(Tail(t))
  ELSE IF Len(t) > 1 /\ IsSpace(t[2]) THEN Collapsed(Tail(t))
  ELSE <<" ">> \o Collapsed(Tail(t))

\* a header cell whitespace-normalized; an absent cell gives the empty text
Normalized(cell) == IF cell = None THEN <<>> ELSE Collapsed(strip(cell))

\* the header list of the sales grid
SalesHeaderList == [i \in 1..Len(sales_rows[1]) |-> Normalized(sales_rows[1][i])]

\* the positions of the header list that hold the header h
PositionsOf(h) == {i \in 1..Len(SalesHeaderList) : SalesHeaderList[i] = h}

(* C17: the first row of the grid, each cell whitespace-normalized, is the *)
(* header list; each later row gives one record, in order, whose keys are  *)
(* exactly the non-blank headers of the list, a key mapped to the row's    *)
(* cell at the header's position (its last position when the header        *)
(* occurs twice), or to absent when the row is shorter than that; the      *)
(* empty text is never a key.                                              *)
RecordsProjectHeaders ==
  SalesProjected =>
    /\ Len(sales) = Len(sales_rows) - 1
    /\ \A k \in 1..Len(sales) :
         /\ DOMAIN sales[k] = Range(SalesHeaderList) \ {<<>>}
         /\ <<>> \notin DOMAIN sales[k]
         /\ \A h \in DOMAIN sales[k] :
              LET at == CHOOSE i \in PositionsOf(h) : \A j \in PositionsOf(h) : j <= i
              IN  sales[k][h] = IF at <= Len(sales_rows[k + 1]) THEN sales_rows[k + 1][at]
                                ELSE None

\* a header row with padded, blank and missing names, and a record of a
\* shorter row: fewer keys than header cells, a key of a padded header
\* mapped to its cell and the key of a header beyond the row mapped to absent
RecordsProjectWitness ==
  /\ SalesProjected
  /\ Len(sales) >= 1
  /\ sales_rows[1][1] # H_OrderCreationDate
  /\ Len(sales_rows[1]) = 27 /\ sales_rows[1][3] # None /\ sales_rows[1][4] = None
  /\ Cardinality(DOMAIN sales[1]) = 6
  /\ Len(sales_rows[2]) = 6
  /\ sales[1][H_OrderCreationDate] = Day2024
  /\ sales[1][H_PartNumber] = P1
  /\ sales[1][H_Site] = None

\* the capital letters
Letters == {UpperCase[i] : i \in 1..Len(UpperCase)}

\* the texts of one or two capital letters
LetterTexts == [1..1 -> Letters] \cup [1..2 -> Letters]

\* the length of the run of capital letters a reference starts with
PrefixLength(ref) ==
  CHOOSE n \in 0..Len(ref) :
    /\ \A i \in 1..n : ref[i] \in Letters
    /\ (n = Len(ref) \/ ref[n + 1] \notin Letters)

\* 26^n
RECURSIVE Power26(_)
Power26(n) == IF n = 0 THEN 1 ELSE 26 * Power26(n - 1)

\* the bijective base-26 value of the letters from the i-th on, A = 1 .. Z = 26
RECURSIVE Bijective26(_, _)
Bijective26(s, i) ==
  IF i > Len(s) THEN 0
  ELSE IndexOf(UpperCase, s[i]) * Power26(Len(s) - i) + Bijective26(s, i + 1)

\* the 0-based column the reference of a cell names
ColumnNamed(ref) == Bijective26(SubSeq(ref, 1, PrefixLength(ref)), 1) - 1

\* col_to_idx on the texts of up to three letters: the four values of the
\* specification, the step from s to s + c, and distinct texts of one or
\* two letters having distinct indices
ColumnValues ==
  /\ col_to_idx(<<"A">>) = 0 /\ col_to_idx(<<"Z">>) = 25
  /\ col_to_idx(<<"A", "A">>) = 26 /\ col_to_idx(<<"A", "B">>) = 27
  /\ \A s \in LetterTexts : col_to_idx(s) = Bijective26(s, 1) - 1
  /\ \A s \in LetterTexts : \A i \in 1..Len(UpperCase) :
       col_to_idx(s \o <<UpperCase[i]>>) = 26 * (col_to_idx(s) + 1) + (i - 1)
  /\ Cardinality({col_to_idx(s) : s \in LetterTexts}) = Cardinality(LetterTexts)

(* C18: the column of a cell is the 0-based bijective base-26 value of the *)
(* capital letters its reference starts with: A is 0, Z 25, AA 26, AB 27,  *)
(* col(s + c) = 26 * (col(s) + 1) + (c - 'A'), distinct letter texts have  *)
(* distinct columns, and in a decoded sheet a row's length is the greatest *)
(* such value among its references plus 1, the last cell of the row that   *)
(* names the greatest column being found there.                            *)
ColumnDecoding ==
  /\ ColumnValues
  /\ SalesDecoded =>
       LET xml_rows == NonEmptyRows(workbook.sheet1)
       IN  \A k \in 1..Len(xml_rows) :
             LET cells == ReferencedCells(xml_rows[k])
                 cols  == {ColumnNamed(cells[i].r) : i \in 1..Len(cells)}
                 last  == CHOOSE i \in 1..Len(cells) :
                            /\ ColumnNamed(cells[i].r) + 1 = Len(sales_rows[k])
                            /\ \A j \in (i + 1)..Len(cells) :
                                 ColumnNamed(cells[j].r) # ColumnNamed(cells[i].r)
             IN  /\ \A c \in cols : c < Len(sales_rows[k])
                 /\ Len(sales_rows[k]) - 1 \in cols
                 /\ sales_rows[k][Len(sales_rows[k])]
                      = cell_value(workbook.shared_strings, cells[last]).value

\* a sheet with cells in the columns AA and ZZ, decoded: rows of 27 and of
\* 702 columns with the cell in the last one
ColumnDecodingWitness ==
  /\ SalesDecoded
  /\ Len(sales_rows) = 3
  /\ Len(sales_rows[2]) = 27 /\ sales_rows[2][27] = <<"5">>
  /\ Len(sales_rows[3]) = 702 /\ sales_rows[3][702] = Acme

(***************************************************************************)
(* Sales lines of one part with Internal and External customers, amounts   *)
(* that are not binary fractions, up to MaxOrder lines a sheet.            *)
(***************************************************************************)
Tenth(n) == <<"0", ".", Digits[n + 1]>>

SplitSales ==
  {Sale(Day2024, Tenth(1), <<"A">>, None, S1, P1, Tenth(3), Acme, O1),
   Sale(Day2024, Tenth(2), <<"A">>, None, S1, P1, Tenth(1), EthosLtd, O1),
   Sale(Day2024, Tenth(3), <<"B">>, None, S1, P1, Tenth(2), EthosLtd, O1),
   Sale(Day2019, Tenth(3), <<"B">>, None, S1, P1, Tenth(2), None, O1),
   Sale(Day2024, <<"1">>, <<"B">>, None, S1, P2, <<"2">>, Acme, O1)}

SplitWorkbooks == {Workbook(recs, OneInventory) : recs \in SeqsUpTo(SplitSales, MaxOrder)}

InitSplit == \E wb \in SplitWorkbooks : Start(wb)

SpecSplit == InitSplit /\ [][Next]_vars

\* part_groups holds the groups of the working set
PartsGrouped == pc \in {"customers", "counts", "done"}

\* the type of the customer of a record
TypeOf(rec) ==
  IF HasEthos(Trimmed(rec.row, H_CustomerName)) THEN "Internal" ELSE "External"

\* the sum, in sheet order, of an amount over the first n working-set
\* records of a (site, part number) key with a customer of one of the types
RECURSIVE SplitSum(_, _, _, _)
SplitSum(n, key, what, types) ==
  IF n = 0 THEN FZero
  ELSE IF PartKeyOf(sales_filtered[n].row) = key /\ TypeOf(sales_filtered[n]) \in types
  THEN FAdd(SplitSum(n - 1, key, what, types), Amount(sales_filtered[n], what))
  ELSE SplitSum(n - 1, key, what, types)

\* the sum of the magnitudes of an amount over the records of a key
RECURSIVE GrossSum(_, _, _)
GrossSum(n, key, what) ==
  IF n = 0 THEN FZero
  ELSE IF PartKeyOf(sales_filtered[n].row) = key
  THEN FAdd(GrossSum(n - 1, key, what), FAbs(Amount(sales_filtered[n], what)))
  ELSE GrossSum(n - 1, key, what)

\* Internal_Customer_Count + External_Customer_Count = Customer_Count in
\* every row of the part report and of the count report
CountsPartition ==
  /\ PartReport.present =>
       \A k \in 1..Len(PartReport.rows) :
         PartReport.rows[k].Internal_Customer_Count + PartReport.rows[k].External_Customer_Count
           = PartReport.rows[k].Customer_Count
  /\ CountReport.present =>
       \A k \in 1..Len(CountReport.rows) :
         CountReport.rows[k].Internal_Customer_Count + CountReport.rows[k].External_Customer_Count
           = CountReport.rows[k].Customer_Count
  /\ PartsGrouped =>
       \A key \in DOMAIN part_groups :
         part_groups[key].internal_customers \cap part_groups[key].external_customers = {}

\* the Internal and External amounts of a group add up to the difference d
\* from the group's amount
SplitDifference(key, what) ==
  LET n == Len(sales_filtered)
  IN  FAdd(FAdd(SplitSum(n, key, what, {"Internal"}), SplitSum(n, key, what, {"External"})),
           FNeg(SplitSum(n, key, what, {"Internal", "External"})))

\* the three amounts of a group are the sums over its records, all of them
\* and those of each type
SplitsAreSums(key) ==
  LET n == Len(sales_filtered)
      g == part_groups[key]
  IN  /\ g.revenue_gbp = SplitSum(n, key, "revenue", {"Internal", "External"})
      /\ g.internal_revenue_gbp = SplitSum(n, key, "revenue", {"Internal"})
      /\ g.external_revenue_gbp = SplitSum(n, key, "revenue", {"External"})
      /\ g.units = SplitSum(n, key, "units", {"Internal", "External"})
      /\ g.internal_units = SplitSum(n, key, "units", {"Internal"})
      /\ g.external_units = SplitSum(n, key, "units", {"External"})

(* C19, as the code has it: in every row of part_level_pareto and of       *)
(* customer_counts_by_site_year_part the Internal and External customer    *)
(* counts add up to Customer_Count, no name being of both types; in every  *)
(* part group the revenue, the Internal revenue and the External revenue   *)
(* are each a sum accumulated in sheet order, so Internal plus External    *)
(* equals the group's revenue up to the rounding of these additions        *)
(* (within (n + 1) * 2^-52 of the summed magnitudes for n records), and    *)
(* likewise the units.                                                     *)
ClassificationPartitionsWithinRounding ==
  /\ CountsPartition
  /\ PartsGrouped =>
       \A key \in DOMAIN part_groups :
         /\ SplitsAreSums(key)
         /\ \A what \in {"revenue", "units"} :
              FLessEq(FAbs(SplitDifference(key, what)),
                      Tolerance(GrossSum(Len(sales_filtered), key, what),
                                Cardinality(GroupLines(key))))

(* C19 as stated: the counts add up, and in every part group the unrounded *)
(* Internal and External revenue sum to the group's revenue and the        *)
(* unrounded Internal and External units to the group's units.             *)
ClassificationPartitions ==
  /\ CountsPartition
  /\ PartsGrouped =>
       \A key \in DOMAIN part_groups :
         /\ FAdd(part_groups[key].internal_revenue_gbp, part_groups[key].external_revenue_gbp)
              = part_groups[key].revenue_gbp
         /\ FAdd(part_groups[key].internal_units, part_groups[key].external_units)
              = part_groups[key].units

\* a part group of three records, customers of both types, whose Internal
\* and External revenue do not add up to the group's revenue to the last bit
ClassificationWitness ==
  /\ pc = "done"
  /\ <<S1, P1>> \in DOMAIN part_groups
  /\ Cardinality(GroupLines(<<S1, P1>>)) = 3
  /\ part_groups[<<S1, P1>>].internal_customers # {}
  /\ part_groups[<<S1, P1>>].external_customers # {}
  /\ SplitDifference(<<S1, P1>>, "revenue") # FZero
  /\ PartReport.rows[1].Customer_Count = 2
  /\ PartReport.rows[1].Internal_Customer_Count = 1

(***************************************************************************)
(* Sales lines without an order number (no cell, blanks) next to lines of  *)
(* an order, each with a cost.                                             *)
(***************************************************************************)
NoOrderSales ==
  {Sale(Day2024, <<"5">>, None, <<"3">>, S1, P1, <<"2">>, Acme, O1),
   Sale(Day2024, <<"1">>, <<" ">>, <<"7">>, S1, P1, <<"3">>, Acme, O1),
   Sale(Day2024, <<"2">>, <<" ", "\t">>, <<"9">>, S1, P2, <<"1">>, EthosLtd, O1),
   Sale(Day2024, <<"4">>, <<"A">>, <<"3">>, S1, P1, <<"2">>, Acme, O1),
   Sale(Day2024, <<"1">>, <<"A">>, None, S1, P1, <<"2">>, EthosLtd, O1),
   Sale(Day2019, <<"0">>, <<"B">>, <<"6">>, S1, P1, <<"2">>, Acme, O1)}

NoOrderWorkbooks == {Workbook(recs, OneInventory) : recs \in SeqsUpTo(NoOrderSales, MaxSales)}

InitNoOrder == \E wb \in NoOrderWorkbooks : Start(wb)

SpecNoOrder == InitNoOrder /\ [][Next]_vars

\* the working-set records without an order number
Orderless == {i \in 1..Len(sales_filtered) : OrderOf(sales_filtered[i].row) = <<>>}

\* customer_groups holds the groups of the working set
CustomersGrouped == pc \in {"counts", "done"}

\* no order is the empty one, an order's total revenue is the sum over the
\* records that bear its number, an order's cost is a cost cell of such a
\* record, a record without an order number has allocated cost 0, and the
\* part and customer groups sum the revenue and units of all their records
OrderlessApart ==
  /\ <<>> \notin DOMAIN order_revenue \cup DOMAIN order_cost
  /\ \A o \in DOMAIN order_revenue :
       order_revenue[o] = OrderTotalRevenue(sales_filtered, Len(sales_filtered), o)
  /\ \A o \in DOMAIN order_cost :
       \E i \in 1..Len(sales_filtered) :
         /\ OrderOf(sales_filtered[i].row) = o
         /\ order_cost[o] = CostValue(sales_filtered[i].row)
  /\ \A i \in Orderless : sales_filtered[i]._cost_alloc_usd = FZero
  /\ PartsGrouped =>
       /\ \A i \in Orderless :
            PartKeyed(sales_filtered[i]) => PartKeyOf(sales_filtered[i].row) \in DOMAIN part_groups
       /\ \A key \in DOMAIN part_groups :
            /\ part_groups[key].revenue_gbp
                 = SplitSum(Len(sales_filtered), key, "revenue", {"Internal", "External"})
            /\ part_groups[key].units
                 = SplitSum(Len(sales_filtered), key, "units", {"Internal", "External"})
  /\ CustomersGrouped =>
       /\ \A i \in Orderless :
            CustomerKeyed(sales_filtered[i])
              => CustomerKeyOf(sales_filtered[i].row) \in DOMAIN customer_groups
       /\ \A key \in DOMAIN customer_groups :
            /\ customer_groups[key].revenue_gbp = CustomerSum(Len(sales_filtered), key, "revenue")
            /\ customer_groups[key].units = CustomerSum(Len(sales_filtered), key, "units")

\* the turn of the first loop on a line without an order number leaves
\* order_revenue and order_cost as they are
OrderlessStep ==
  (pc = "filter" /\ row_index <= Len(sales) /\ OrderOf(sales[row_index]) = <<>>)
    => (order_revenue' = order_revenue /\ order_cost' = order_cost)

(* C20: a working-set record whose Sales Order Number is blank or absent   *)
(* after trimming belongs to no order: taking it into the working set      *)
(* changes no order's total revenue and sets no order's cost, its          *)
(* allocated cost is always 0, and its revenue and units are part of the   *)
(* sums of its part group and of its customer group.                       *)
OrderlessBelongsToNoOrder == []OrderlessApart /\ [][OrderlessStep]_vars

\* a finished run over a line without an order number (revenue 5, cost 3)
\* and a line of order A (revenue 4, cost 3) of the same part and customer:
\* order A has revenue 4, the orderless line no allocated cost, the part
\* and the customer revenue 9
OrderlessWitness ==
  /\ pc = "done"
  /\ Len(sales_filtered) = 2
  /\ Orderless = {1}
  /\ CostValue(sales_filtered[1].row) = to_float(<<"3">>)
  /\ DOMAIN order_revenue = {<<"A">>}
  /\ order_revenue[<<"A">>] = to_float(<<"4">>)
  /\ sales_filtered[2]._cost_alloc_usd = to_float(<<"3">>)
  /\ part_groups[<<S1, P1>>].revenue_gbp = to_float(<<"9">>)
  /\ customer_groups[<<S1, Acme>>].revenue_gbp = to_float(<<"9">>)
  /\ customer_groups[<<S1, Acme>>].units = to_float(<<"4">>)

\* the working-set records with a site and a part but no customer name
Nameless ==
  {i \in 1..Len(sales_filtered) :
     PartKeyed(sales_filtered[i]) /\ Trimmed(sales_filtered[i].row, H_CustomerName) = <<>>}

\* the trimmed customer names, the empty one included, of the records of a
\* (site, part number) group
NamesOf(key) == {Trimmed(sales_filtered[i].row, H_CustomerName) : i \in GroupLines(key)}

\* the part group of a nameless record has the empty name among its
\* customers and its External customers, and sums all its records
NamelessInPartGroup(i) ==
  LET key == PartKeyOf(sales_filtered[i].row)
      n   == Len(sales_filtered)
  IN  /\ key \in DOMAIN part_groups
      /\ <<>> \in part_groups[key].customers
      /\ <<>> \in part_groups[key].external_customers
      /\ <<>> \notin part_groups[key].internal_customers
      /\ part_groups[key].revenue_gbp = SplitSum(n, key, "revenue", {"Internal", "External"})
      /\ part_groups[key].external_revenue_gbp = SplitSum(n, key, "revenue", {"External"})
      /\ part_groups[key].units = SplitSum(n, key, "units", {"Internal", "External"})
      /\ part_groups[key].external_units = SplitSum(n, key, "units", {"External"})

\* the part report's row of a nameless record counts the empty name once
NamelessInPartReport(i) ==
  \E k \in 1..Len(PartReport.rows) :
    /\ PartKeys[k] = PartKeyOf(sales_filtered[i].row)
    /\ PartReport.rows[k].Customer_Count = Cardinality(NamesOf(PartKeys[k]) \ {<<>>}) + 1
    /\ PartReport.rows[k].External_Customer_Count
         = Cardinality({name \in NamesOf(PartKeys[k]) \ {<<>>} : ~HasEthos(name)}) + 1
    /\ PartReport.rows[k].Internal_Customer_Count
         = Cardinality({name \in NamesOf(PartKeys[k]) : HasEthos(name)})

(* C21: a working-set record with a site and a part but a blank or absent  *)
(* customer name is in its part group: its revenue and units are in the    *)
(* group's sums and in the External ones, and the empty name counts as one *)
(* External customer in Customer_Count and External_Customer_Count; the    *)
(* customer report and the count report have no row for the empty name,    *)
(* their rows being those of the records that have a name.                 *)
NamelessCountsAsExternal ==
  /\ PartsGrouped => \A i \in Nameless : NamelessInPartGroup(i)
  /\ PartReport.present => \A i \in Nameless : NamelessInPartReport(i)
  /\ CustomerReport.present =>
       /\ Range(CustomerKeys) = CustomerKeySet
       /\ \A k \in 1..Len(CustomerReport.rows) :
            /\ CustomerKeys[k][2] # <<>>
            /\ CustomerReport.rows[k].Revenue_GBP
                 = round2(CustomerSum(Len(sales_filtered), CustomerKeys[k], "revenue"))
            /\ CustomerReport.rows[k].Units
                 = round2(CustomerSum(Len(sales_filtered), CustomerKeys[k], "units"))
  /\ CountReport.present =>
       /\ Range(CountKeys) = CountKeySet
       /\ \A k \in 1..Len(CountReport.rows) :
            /\ CountReport.rows[k].Customer_Count = Cardinality(CustomersOf(CountKeys[k]))
            /\ <<>> \notin CustomersOf(CountKeys[k])

\* a finished run over a nameless record and a record of Acme of one part:
\* the part row counts two customers, both External, and sums both
\* records, while the customer and count reports have Acme's row only
NamelessWitness ==
  /\ pc = "done"
  /\ Len(sales_filtered) = 2
  /\ Cardinality(Nameless) = 1
  /\ Len(PartReport.rows) = 1
  /\ PartReport.rows[1].Customer_Count = 2
  /\ PartReport.rows[1].External_Customer_Count = 2
  /\ PartReport.rows[1].Revenue_GBP = to_float(<<"2">>)
  /\ PartReport.rows[1].External_Revenue_GBP = to_float(<<"2">>)
  /\ PartReport.rows[1].Units = to_float(<<"4">>)
  /\ Len(CustomerReport.rows) = 1
  /\ CustomerReport.rows[1].Revenue_GBP = to_float(<<"1">>)
  /\ Len(CountReport.rows) = 1
  /\ CountReport.rows[1].Customer_Count = 1

Init == InitAlloc \/ InitYear \/ InitKeys \/ InitInventory \/ InitInput \/ InitOrder
        \/ InitRerun \/ InitDate \/ InitCustomer \/ InitGrid \/ InitSplit \/ InitNoOrder

Spec == Init /\ [][Next]_vars
====
